---------------------------- MODULE Spec2Model ----------------------------
(***************************************************************************)
(* A model of nextship (pxnship): the deployment pipeline (runShip), the   *)
(* transfer method selector (upload, uploadWithRsync, uploadWithSFTP) and  *)
(* the PM2 reconciliation logic (reloadApp, getAppStatus,                  *)
(* verifyAppRunning, runRestart).                                          *)
(*                                                                         *)
(* Every await of the TypeScript source is one step of the model: the      *)
(* remote host, the SSH transport and the local tools answer each step     *)
(* with one of the outcomes they can produce (a rejected promise, a        *)
(* nonzero exit code, an unparsable output, a normal answer).              *)
(***************************************************************************)
EXTENDS Integers, Sequences, FiniteSets, TLC

(***************************************************************************)
(* Bounds of the model.                                                    *)
(***************************************************************************)
\* runRestart / reloadApp invocations made in succession by the driver.
MaxCalls == 2
\* Largest retry budget handed to verifyAppRunning by the driver.
MaxRetries == 4
\* Exclude patterns per upload configuration, at most.
MaxExclude == 2
\* Characters per environment-variable value, at most.
MaxValueLen == 2

\* Lines of rsync output, at most.
MaxLines == 3

(***************************************************************************)
(* Program constants.                                                      *)
(***************************************************************************)
\* verifyAppRunning(sshConfig, appName, retries = 3, delayMs = 2000)
DefaultRetries == 3
DefaultDelayMs == 2000

VARIABLES
  \* ---- configuration and arguments (read-only after Init)
  pm2Config,    \* [appName, reload, ecosystem, env]
  remotePath,   \* "" stands for an omitted (undefined) remotePath
  verifyArgs,   \* [retries, delayMs] handed to verifyAppRunning
  \* ---- the remote host
  procTable,    \* the supervisor's process table: a sequence of names
  ecoOnDisk,    \* whether ecosystem.config.js lies in the target directory
  \* ---- activations
  ra,           \* reloadApp
  vf,           \* verifyAppRunning
  rr,           \* runRestart
  \* ---- the driver and its log
  calls,        \* entry-point invocations started so far
  raLog         \* one record per completed reloadApp call

pm2Vars == <<pm2Config, remotePath, verifyArgs, procTable, ecoOnDisk,
             ra, vf, rr, calls, raLog>>

VARIABLES
  sshConfig,        \* which credentials the descriptor carries
  uploadConfig,     \* [useRsync, include, exclude]
  rsyncInstalled,   \* the local machine has rsync
  sshpassInstalled, \* the local machine has sshpass
  up,               \* upload (the method selector) and uploadWithRsync
  sf                \* uploadWithSFTP

upVars == <<sshConfig, uploadConfig, rsyncInstalled, sshpassInstalled, up, sf>>

VARIABLES
  shipOptions,      \* [dryRun, skipBuild]
  buildConfig,      \* [standalone, prepareLocally, skipBuild]
  sh,               \* runShip
  cli               \* the "ship" command: loadConfig, then runShip

shipVars == <<shipOptions, buildConfig, sh, cli>>

VARIABLES
  tx,               \* the command text built for the remote shell
  ex,               \* execRemoteCommand, and the sessions it opened
  pr,               \* runPrepare
  lc,               \* loadConfig on a config file and an environment
  rs,               \* uploadWithRsync reading the output of rsync
  rc                \* two reloadApp calls in flight at once

auxVars == <<rs, rc>>

coreLibVars == <<tx, ex, pr, lc>>

libVars == <<coreLibVars, auxVars>>

vars == <<pm2Vars, upVars, shipVars, libVars>>

(***************************************************************************)
(* Values.                                                                 *)
(***************************************************************************)
AppName == "app"
OtherName == "other"

\* pm2Config.ecosystem: false | true/"auto" | "<filename>"
EcoDisabled == "false"
EcoAuto     == "auto"
EcoExplicit == "custom.config.js"
EcoConventional == "ecosystem.config.js"
NoFile == "null"

\* pm2Config.env: a list of [k, v] entries in the order Object.entries gives
\* them; a value is the sequence of its characters (a run of letters counts
\* as one).
NoEnv    == <<>>
PlainEnv == << [k |-> "NODE_ENV", v |-> <<"production">>] >>
PortEnv  == << [k |-> "PORT", v |-> <<"8080">>] >>

\* pm2Config.port: left out, or String(port).
NoPort    == <<>>
FixedPort == <<"3000">>

UnixPath == "/var/www/app"
WslPath  == "/mnt/c/app"

\* Error messages, as the source builds them.
ErrConnect      == "SSH connection failed"
ErrExec         == "SSH exec failed"
ErrNoRemotePath == "App not found and no remotePath provided to start it"
ErrCommand      == "PM2 command failed"
ErrNotStarted   == "Application did not start within retries"
ErrNotFound     == "App not found in PM2"
ErrParse        == "Failed to parse PM2 output"
ErrStatus       == "Failed to get PM2 status"
NoError         == "undefined"

Ok(status)  == [success |-> TRUE,  status |-> status, error |-> NoError]
Fail(error) == [success |-> FALSE, status |-> "undefined", error |-> error]
NoResult    == [success |-> FALSE, status |-> "pending", error |-> "pending"]

\* Commands sent over the session.
Cmd(verb, target, flag) ==
  [verb |-> verb, target |-> target, flag |-> flag, name |-> "-"]
ProbeCmd  == Cmd("if exist", EcoConventional, "echo EXISTS")
JlistCmd  == Cmd("jlist", "-", "-")
SaveCmd   == Cmd("save", "-", "-")
NoCommand == Cmd("-", "-", "-")

ActionVerbs == {"reload", "restart", "start"}

ActionCmds(sent) == SelectSeq(sent, LAMBDA c : c.verb \in ActionVerbs)

(***************************************************************************)
(* The supervisor (pm2) on the remote host.  It executes one command at a  *)
(* time.  reload/restart act on an entry that exists; "start <script>      *)
(* --name n" registers a new entry and is refused when an entry of that    *)
(* name and script is already launched; "start <descriptor> --only n"      *)
(* starts n when absent and restarts it when present.                      *)
(***************************************************************************)
InTable(table, name) == \E i \in 1..Len(table) : table[i] = name

Count(table, name) == Cardinality({i \in 1..Len(table) : table[i] = name})

SupervisorAccepts(table, cmd) ==
  CASE cmd.verb \in {"reload", "restart"} -> InTable(table, cmd.target)
    [] cmd.verb = "start" /\ cmd.flag = "--name" -> ~InTable(table, cmd.name)
    [] cmd.verb = "start" /\ cmd.flag = "--only" -> TRUE
    [] OTHER -> TRUE

SupervisorApply(table, cmd) ==
  IF cmd.verb = "start" /\ ~InTable(table, cmd.name)
    THEN Append(table, cmd.name)
    ELSE table

(***************************************************************************)
(* reloadApp: the synchronous decisions between two awaits.                *)
(***************************************************************************)
\* pm2.ts 73-85: the branches that resolve the descriptor without a probe.
StaticEcosystemFile(ecosystem) ==
  IF ecosystem = EcoDisabled THEN NoFile
  ELSE IF ecosystem # EcoAuto THEN ecosystem
  ELSE NoFile

\* A variant that never probes.
NeedsProbe_Never(ecosystem, path) == FALSE

\* pm2.ts 79: the auto-detect branch is taken only with a remotePath.
NeedsProbe(ecosystem, path) == ecosystem = EcoAuto /\ path # ""

\* pm2.ts 82: checkEcosystem.stdout.includes("EXISTS")
ProbedEcosystemFile(stdoutHasExists) ==
  IF stdoutHasExists THEN EcoConventional ELSE NoFile

\* A variant that trusts stdout whatever the exit code and never falls back.
AppExists_TrustsStdout(out, appName) == InTable(out.apps, appName)

\* pm2.ts 88-98: the existence check on the answer to "pm2 jlist".
\* out = [code, parses, apps]: the exit code, whether stdout is a JSON array
\* of process records, and the names it lists.
AppExists(out, appName) ==
  IF out.code = 0
    THEN IF out.parses THEN InTable(out.apps, appName) ELSE FALSE
    ELSE FALSE

\* pm2.ts 102-105: the command for a service that exists.
ExistsCommand(reload, appName) ==
  [verb |-> IF reload THEN "reload" ELSE "restart",
   target |-> appName, flag |-> "--update-env", name |-> appName]

\* A variant that never starts from a descriptor.
StartCommand_AlwaysDefault(ecosystemFile, appName) ==
  [verb |-> "start", target |-> "server.js", flag |-> "--name",
   name |-> appName]

\* pm2.ts 115-123: the command for a service that does not exist.
StartCommand(ecosystemFile, appName) ==
  IF ecosystemFile # NoFile
    THEN [verb |-> "start", target |-> ecosystemFile, flag |-> "--only",
          name |-> appName]
    ELSE [verb |-> "start", target |-> "server.js", flag |-> "--name",
          name |-> appName]

\* A variant that starts the service whether or not it exists.
ChooseCommand_AlwaysStart(appExists, reload, ecosystemFile, appName) ==
  StartCommand(ecosystemFile, appName)

\* pm2.ts 102-124: reload/restart when the service exists, start otherwise.
ChooseCommand(appExists, reload, ecosystemFile, appName) ==
  IF appExists THEN ExistsCommand(reload, appName)
  ELSE StartCommand(ecosystemFile, appName)

\* A variant without the guard.
MissingRemotePath_Unchecked(appExists, path) == FALSE

\* pm2.ts 108: a start needs a remotePath.
MissingRemotePath(appExists, path) == ~appExists /\ path = ""

\* pm2.ts 140-142: the status text of a successful call.
SuccessStatus(appExists, ecosystemFile) ==
  IF appExists THEN "PM2 reload completed"
  ELSE IF ecosystemFile # NoFile
    THEN "PM2 app started (using ecosystem.config.js)"
    ELSE "PM2 app started"

\* No answer to "pm2 jlist" yet (or none at all: the dispatch failed).
NoAnswer == [code |-> -1, parses |-> FALSE, apps |-> <<>>]

RaIdle == [pc |-> "idle", conn |-> "null", ecosystemFile |-> NoFile,
           appExists |-> FALSE, command |-> NoCommand, sent |-> <<>>,
           ret |-> NoResult, fault |-> FALSE, tableAtCall |-> <<>>,
           jlist |-> NoAnswer, actionCode |-> -1, saveOutcome |-> "-",
           probed |-> "-"]

\* What the log keeps of a completed call.
LogEntry(a, tableAfter) ==
  [ret |-> a.ret, sent |-> a.sent, fault |-> a.fault,
   tableAtCall |-> a.tableAtCall, tableAfter |-> tableAfter,
   jlist |-> a.jlist, appExists |-> a.appExists,
   actionCode |-> a.actionCode, saveOutcome |-> a.saveOutcome]

\* return (or the catch block's return), then finally { conn?.close() }.
RaReturn(a, result) ==
  [a EXCEPT !.pc = "done", !.ret = result,
            !.conn = IF a.conn = "open" THEN "closed" ELSE a.conn]

\* pm2.ts 50-57: entry.
RA_Call ==
  ra' = [RaIdle EXCEPT !.pc = "connect", !.tableAtCall = procTable]

\* pm2.ts 59: conn = await createSSHConnection(sshConfig), then 61-85.
RA_Connect ==
  /\ ra.pc = "connect"
  /\ \E ok \in BOOLEAN :
       IF ok
         THEN ra' = [ra EXCEPT
                !.conn = "open",
                !.ecosystemFile = StaticEcosystemFile(pm2Config.ecosystem),
                !.pc = IF NeedsProbe(pm2Config.ecosystem, remotePath)
                         THEN "probe" ELSE "jlist"]
         ELSE ra' = RaReturn([ra EXCEPT !.fault = TRUE], Fail(ErrConnect))
  /\ UNCHANGED <<pm2Config, remotePath, verifyArgs, procTable, ecoOnDisk,
                 vf, rr, calls, raLog>>
  /\ UNCHANGED <<upVars, shipVars, libVars>>

\* pm2.ts 81-84: the descriptor probe.
RA_Probe ==
  /\ ra.pc = "probe"
  /\ LET a == [ra EXCEPT !.sent = Append(ra.sent, ProbeCmd)] IN
     \E out \in {"throw", "found", "silent"} :
       /\ out = "found" => ecoOnDisk
       /\ IF out = "throw"
            THEN ra' = RaReturn([a EXCEPT !.fault = TRUE], Fail(ErrExec))
            ELSE ra' = [a EXCEPT
                   !.probed = out,
                   !.ecosystemFile = ProbedEcosystemFile(out = "found"),
                   !.pc = "jlist"]
  /\ UNCHANGED <<pm2Config, remotePath, verifyArgs, procTable, ecoOnDisk,
                 vf, rr, calls, raLog>>
  /\ UNCHANGED <<upVars, shipVars, libVars>>

\* The answers "pm2 jlist" can give: the table, an unparsable stdout, and a
\* nonzero exit (here with the table on stdout all the same).
JlistAnswers(table) ==
  { [code |-> 0, parses |-> TRUE,  apps |-> table],
    [code |-> 0, parses |-> FALSE, apps |-> <<>>],
    [code |-> 1, parses |-> TRUE,  apps |-> table] }

\* pm2.ts 88-124: the process-table query and the choice of the command.
RA_Jlist ==
  /\ ra.pc = "jlist"
  /\ LET a == [ra EXCEPT !.sent = Append(ra.sent, JlistCmd)] IN
     \/ ra' = RaReturn([a EXCEPT !.fault = TRUE], Fail(ErrExec))
     \/ \E out \in JlistAnswers(procTable) :
          LET exists == AppExists(out, pm2Config.appName)
              b == [a EXCEPT
                     !.appExists = exists,
                     !.jlist = out,
                     !.fault = a.fault \/ out.code # 0 \/ ~out.parses]
          IN IF MissingRemotePath(exists, remotePath)
               THEN ra' = RaReturn(b, Fail(ErrNoRemotePath))
               ELSE ra' = [b EXCEPT
                      !.command = ChooseCommand(exists, pm2Config.reload,
                                    b.ecosystemFile, pm2Config.appName),
                      !.pc = "exec"]
  /\ UNCHANGED <<pm2Config, remotePath, verifyArgs, procTable, ecoOnDisk,
                 vf, rr, calls, raLog>>
  /\ UNCHANGED <<upVars, shipVars, libVars>>

\* A variant that goes on to persist whatever the action's exit code.
RA_Exec_PersistsAnyway ==
  /\ ra.pc = "exec"
  /\ LET a == [ra EXCEPT !.sent = Append(ra.sent, ra.command)] IN
     \/ /\ ra' = RaReturn([a EXCEPT !.fault = TRUE], Fail(ErrExec))
        /\ UNCHANGED procTable
     \/ /\ ra' = [a EXCEPT !.actionCode = 1, !.pc = "save"]
        /\ UNCHANGED procTable
     \/ /\ SupervisorAccepts(procTable, ra.command)
        /\ procTable' = SupervisorApply(procTable, ra.command)
        /\ ra' = [a EXCEPT !.actionCode = 0, !.pc = "save"]
  /\ UNCHANGED <<pm2Config, remotePath, verifyArgs, ecoOnDisk,
                 vf, rr, calls, raLog>>
  /\ UNCHANGED <<upVars, shipVars, libVars>>

\* pm2.ts 126-133: the action command and the test of its exit code.
RA_Exec ==
  /\ ra.pc = "exec"
  /\ LET a == [ra EXCEPT !.sent = Append(ra.sent, ra.command)] IN
     \/ /\ ra' = RaReturn([a EXCEPT !.fault = TRUE], Fail(ErrExec))
        /\ UNCHANGED procTable
     \/ /\ ra' = RaReturn([a EXCEPT !.actionCode = 1,
                             !.fault = a.fault \/
                                SupervisorAccepts(procTable, ra.command)],
                          Fail(ErrCommand))
        /\ UNCHANGED procTable
     \/ /\ SupervisorAccepts(procTable, ra.command)
        /\ procTable' = SupervisorApply(procTable, ra.command)
        /\ ra' = [a EXCEPT !.actionCode = 0, !.pc = "save"]
  /\ UNCHANGED <<pm2Config, remotePath, verifyArgs, ecoOnDisk,
                 vf, rr, calls, raLog>>
  /\ UNCHANGED <<upVars, shipVars, libVars>>

\* pm2.ts 136-143: await conn.exec("pm2 save"); its result is not read.
RA_Save ==
  /\ ra.pc = "save"
  /\ LET a == [ra EXCEPT !.sent = Append(ra.sent, SaveCmd)] IN
     \E out \in {"throw", "nonzero", "ok"} :
       IF out = "throw"
         THEN ra' = RaReturn([a EXCEPT !.saveOutcome = out, !.fault = TRUE],
                             Fail(ErrExec))
         ELSE ra' = RaReturn([a EXCEPT !.saveOutcome = out],
                             Ok(SuccessStatus(a.appExists, a.ecosystemFile)))
  /\ UNCHANGED <<pm2Config, remotePath, verifyArgs, procTable, ecoOnDisk,
                 vf, rr, calls, raLog>>
  /\ UNCHANGED <<upVars, shipVars, libVars>>

(***************************************************************************)
(* getAppStatus and verifyAppRunning.                                      *)
(***************************************************************************)
\* What one getAppStatus call meets: a session that cannot be opened, a
\* command that cannot be dispatched, or an answer to "pm2 jlist" in which
\* the service, when listed, has some runtime status.
Statuses == {"online", "launching", "errored"}

StatusAnswers(table) ==
  { [kind |-> k, code |-> 0, parses |-> FALSE, listed |-> FALSE,
     status |-> "-"] : k \in {"noSession", "noDispatch"} }
  \cup
  { [kind |-> "answer", code |-> c, parses |-> p,
     listed |-> InTable(table, AppName), status |-> st] :
       c \in {0, 1}, p \in BOOLEAN,
       st \in IF InTable(table, AppName) THEN Statuses ELSE {"-"} }

\* pm2.ts 157-207
GetAppStatus(out) ==
  IF out.kind = "noSession" THEN Fail(ErrConnect)
  ELSE IF out.kind = "noDispatch" THEN Fail(ErrExec)
  ELSE IF out.code # 0 THEN Fail(ErrStatus)
  ELSE IF ~out.parses THEN Fail(ErrParse)
  ELSE IF ~out.listed THEN Fail(ErrNotFound)
  ELSE Ok(out.status)

\* pm2.ts 221: status.success && status.status === "online"
IsOnline(status) == status.success /\ status.status = "online"

\* A variant that also waits after the last attempt.
WaitsBeforeNext_Always(i, retries) == TRUE

\* pm2.ts 229: if (i < retries - 1)
WaitsBeforeNext(i, retries) == i < retries - 1

VfIdle == [pc |-> "idle", retries |-> 0, delayMs |-> 0, i |-> 0,
           polls |-> 0, waits |-> 0, elapsed |-> 0, lastStep |-> "-",
           onlineAt |-> 0, ret |-> NoResult]

\* pm2.ts 212-218: entry, and the first test of the loop condition.
VfEnter(retries, delayMs) ==
  IF 0 < retries
    THEN [VfIdle EXCEPT !.pc = "poll", !.retries = retries,
                        !.delayMs = delayMs]
    ELSE [VfIdle EXCEPT !.pc = "done", !.retries = retries,
                        !.delayMs = delayMs, !.ret = Fail(ErrNotStarted)]

\* pm2.ts 219-232: one getAppStatus call and the tests that follow it.
V_Poll ==
  /\ vf.pc = "poll"
  /\ \E out \in StatusAnswers(procTable) :
       LET status == GetAppStatus(out)
           v == [vf EXCEPT !.polls = vf.polls + 1, !.lastStep = "poll"]
       IN IF IsOnline(status)
            THEN vf' = [v EXCEPT !.pc = "done", !.onlineAt = v.polls,
                                 !.ret = Ok("Application is running")]
          ELSE IF WaitsBeforeNext(vf.i, vf.retries)
            THEN vf' = [v EXCEPT !.pc = "wait"]
          ELSE IF vf.i + 1 < vf.retries
            THEN vf' = [v EXCEPT !.i = vf.i + 1]
          ELSE vf' = [v EXCEPT !.i = vf.i + 1, !.pc = "done",
                               !.ret = Fail(ErrNotStarted)]
  /\ UNCHANGED <<pm2Config, remotePath, verifyArgs, procTable, ecoOnDisk,
                 ra, rr, calls, raLog>>
  /\ UNCHANGED <<upVars, shipVars, libVars>>

\* pm2.ts 230: the timer fires after delayMs; then i++ and the loop test.
V_Wait ==
  /\ vf.pc = "wait"
  /\ LET v == [vf EXCEPT !.waits = vf.waits + 1, !.lastStep = "wait",
                 !.elapsed = vf.elapsed + vf.delayMs, !.i = vf.i + 1]
     IN IF vf.i + 1 < vf.retries
          THEN vf' = [v EXCEPT !.pc = "poll"]
          ELSE vf' = [v EXCEPT !.pc = "done", !.ret = Fail(ErrNotStarted)]
  /\ UNCHANGED <<pm2Config, remotePath, verifyArgs, procTable, ecoOnDisk,
                 ra, rr, calls, raLog>>
  /\ UNCHANGED <<upVars, shipVars, libVars>>

(***************************************************************************)
(* runRestart                                                              *)
(***************************************************************************)
RestartResult(success, error) == [success |-> success, error |-> error]

RrIdle == [pc |-> "idle", ret |-> RestartResult(FALSE, "pending"),
           reloadOk |-> FALSE, verified |-> FALSE]

\* restart.ts 29-43: the result reloadApp returned decides the next step.
AfterReload(result) ==
  IF ~result.success
    THEN [RrIdle EXCEPT !.pc = "done",
                        !.ret = RestartResult(FALSE, result.error)]
    ELSE [RrIdle EXCEPT !.pc = "verify", !.reloadOk = TRUE]

\* A variant in which a failed verification fails runRestart.
AfterVerify_Strict(r, verification) ==
  IF ~verification.success
    THEN [r EXCEPT !.pc = "done",
                   !.ret = RestartResult(FALSE, verification.error)]
    ELSE [r EXCEPT !.pc = "done", !.ret = RestartResult(TRUE, NoError),
                   !.verified = TRUE]

\* restart.ts 43-58: both outcomes of the verification return success.
AfterVerify(r, verification) ==
  IF ~verification.success
    THEN [r EXCEPT !.pc = "done", !.ret = RestartResult(TRUE, NoError)]
    ELSE [r EXCEPT !.pc = "done", !.ret = RestartResult(TRUE, NoError),
                   !.verified = TRUE]

\* restart.ts 14-27: entry, up to the call of reloadApp.
RR_Call ==
  /\ rr' = [RrIdle EXCEPT !.pc = "reload"]
  /\ RA_Call
  /\ vf' = VfIdle

\* restart.ts 27-41: reloadApp returned.
RR_AfterReload ==
  /\ rr.pc = "reload"
  /\ ra.pc = "done"
  /\ rr' = AfterReload(ra.ret)
  /\ raLog' = Append(raLog, LogEntry(ra, procTable))
  /\ ra' = [ra EXCEPT !.pc = "returned"]
  /\ vf' = IF ra.ret.success
             THEN VfEnter(DefaultRetries, DefaultDelayMs) ELSE vf
  /\ UNCHANGED <<pm2Config, remotePath, verifyArgs, procTable, ecoOnDisk,
                 calls>>
  /\ UNCHANGED <<upVars, shipVars, libVars>>

\* restart.ts 43-58: verifyAppRunning returned.
RR_AfterVerify ==
  /\ rr.pc = "verify"
  /\ vf.pc = "done"
  /\ rr' = AfterVerify(rr, vf.ret)
  /\ vf' = VfIdle
  /\ UNCHANGED <<pm2Config, remotePath, verifyArgs, procTable, ecoOnDisk,
                 ra, calls, raLog>>
  /\ UNCHANGED <<upVars, shipVars, libVars>>

(***************************************************************************)
(* reloadApp invoked up to MaxCalls times in succession on one host, with  *)
(* no other change to the host in between: "pxnship restart" run again     *)
(* (no remotePath), or the restart step of successive "pxnship ship" runs. *)
(***************************************************************************)
PM2Configs ==
  [appName : {AppName}, reload : BOOLEAN,
   ecosystem : {EcoDisabled, EcoAuto, EcoExplicit},
   env : {NoEnv, PlainEnv}, port : {NoPort}]

InitialTables == {<<>>, <<OtherName>>, <<OtherName, AppName>>}

InitPM2Idle ==
  /\ ra = RaIdle
  /\ vf = VfIdle
  /\ rr = RrIdle
  /\ calls = 0
  /\ raLog = <<>>

InitReloadPM2 ==
  /\ pm2Config \in PM2Configs
  /\ remotePath \in {"", UnixPath, WslPath}
  /\ verifyArgs = [retries |-> DefaultRetries, delayMs |-> DefaultDelayMs]
  /\ procTable \in InitialTables
  /\ ecoOnDisk \in BOOLEAN
  /\ InitPM2Idle

\* One more invocation of reloadApp.
ReloadDriver ==
  /\ calls < MaxCalls
  /\ rr.pc = "idle"
  /\ ra.pc \in {"idle", "returned"}
  /\ calls' = calls + 1
  /\ RA_Call
  /\ UNCHANGED <<pm2Config, remotePath, verifyArgs, procTable, ecoOnDisk,
                 vf, rr, raLog>>
  /\ UNCHANGED <<upVars, shipVars, libVars>>

\* The invocation returned to its caller.
ReloadReturned ==
  /\ rr.pc = "idle"
  /\ ra.pc = "done"
  /\ raLog' = Append(raLog, LogEntry(ra, procTable))
  /\ ra' = [ra EXCEPT !.pc = "returned"]
  /\ UNCHANGED <<pm2Config, remotePath, verifyArgs, procTable, ecoOnDisk,
                 vf, rr, calls>>
  /\ UNCHANGED <<upVars, shipVars, libVars>>

(***************************************************************************)
(* Properties of reloadApp, stated on the completed calls.                 *)
(***************************************************************************)
Answered(e) == e.jlist # NoAnswer

SnapshotLists(e) ==
  e.jlist.code = 0 /\ e.jlist.parses /\ InTable(e.jlist.apps, AppName)

Persisted(e) == \E k \in 1..Len(e.sent) : e.sent[k].verb = "save"

IsReloadOrRestart(c) ==
  /\ c.verb = (IF pm2Config.reload THEN "reload" ELSE "restart")
  /\ c.target = AppName
  /\ c.flag = "--update-env"

FaultBeforePersist(e) ==
  IF e.saveOutcome = "-" THEN e.fault
  ELSE e.jlist.code # 0 \/ ~e.jlist.parses

C4_ExistingIsReloaded ==
  \A i \in 1..Len(raLog) :
    LET e == raLog[i] IN
    SnapshotLists(e) =>
      /\ Len(ActionCmds(e.sent)) = 1
      /\ IsReloadOrRestart(ActionCmds(e.sent)[1])
      /\ e.actionCode = 0 => e.ret.success

\* C5: with the service absent from the process table and no remotePath,
\* reloadApp returns the failure that cites the missing remotePath and has
\* sent no start, reload, restart or persist command.
C5_NoStartWithoutRemotePath ==
  \A i \in 1..Len(raLog) :
    LET e == raLog[i] IN
    (Answered(e) /\ ~InTable(e.tableAtCall, AppName) /\ remotePath = "")
      => /\ ~e.ret.success
         /\ e.ret.error = ErrNoRemotePath
         /\ ActionCmds(e.sent) = <<>>
         /\ ~Persisted(e)

C5_Witness ==
  \E i \in 1..Len(raLog) :
    /\ Answered(raLog[i])
    /\ raLog[i].jlist.code = 0 /\ raLog[i].jlist.parses
    /\ ~InTable(raLog[i].tableAtCall, AppName)
    /\ remotePath = ""
    /\ raLog[i].ret.error = ErrNoRemotePath
    /\ raLog[i].sent = <<JlistCmd>>

\* C6: when the process-table query exits nonzero or its output cannot be
\* parsed, reloadApp returns no parse error; it takes the service to be
\* absent and, given a remotePath, issues a start command.
C6_MalformedTableMeansStart ==
  \A i \in 1..Len(raLog) :
    LET e == raLog[i] IN
    (Answered(e) /\ (e.jlist.code # 0 \/ ~e.jlist.parses) /\ remotePath # "")
      => /\ ~e.appExists
         /\ e.ret.error \notin {ErrParse, ErrStatus}
         /\ Len(ActionCmds(e.sent)) = 1
         /\ ActionCmds(e.sent)[1].verb = "start"

\* The query failed although the service is registered, and a start went out.
C6_Witness ==
  \E i \in 1..Len(raLog) :
    /\ Answered(raLog[i])
    /\ raLog[i].jlist.code # 0 \/ ~raLog[i].jlist.parses
    /\ InTable(raLog[i].tableAtCall, AppName)
    /\ remotePath # ""
    /\ Len(ActionCmds(raLog[i].sent)) = 1
    /\ ActionCmds(raLog[i].sent)[1].verb = "start"

\* C9 as stated: once the reload/restart/start command exited 0, reloadApp
\* returns success however "pm2 save" ends, a nonzero exit or a failure to
\* dispatch.
C9_PersistNeverFails ==
  \A i \in 1..Len(raLog) :
    raLog[i].actionCode = 0 => raLog[i].ret.success

(***************************************************************************)
(* verifyAppRunning called with a retry budget of 1..MaxRetries and one of *)
(* the delays below.                                                       *)
(***************************************************************************)
DelayChoices == {1000, DefaultDelayMs}

InitVerifyPM2 ==
  /\ pm2Config = [appName |-> AppName, reload |-> TRUE,
                  ecosystem |-> EcoAuto, env |-> NoEnv,
                  port |-> NoPort]
  /\ remotePath = UnixPath
  /\ verifyArgs \in [retries : 1..MaxRetries, delayMs : DelayChoices]
  /\ procTable \in InitialTables
  /\ ecoOnDisk = FALSE
  /\ InitPM2Idle

VerifyDriver ==
  /\ calls = 0
  /\ vf.pc = "idle"
  /\ calls' = 1
  /\ vf' = VfEnter(verifyArgs.retries, verifyArgs.delayMs)
  /\ UNCHANGED <<pm2Config, remotePath, verifyArgs, procTable, ecoOnDisk,
                 ra, rr, raLog>>
  /\ UNCHANGED <<upVars, shipVars, libVars>>

\* C7: verifyAppRunning(retries = N, delayMs = D) polls at most N times;
\* the first poll that reads "online" ends it with success and no further
\* poll; there is one wait of D between two consecutive polls and none after
\* the last; without an "online" reading it returns failure after exactly N
\* polls and N - 1 waits.
C7_BoundedRetry ==
  /\ vf.polls <= vf.retries
  /\ vf.elapsed = vf.waits * vf.delayMs
  /\ vf.pc = "poll" => vf.waits = vf.polls /\ vf.onlineAt = 0
  /\ vf.pc = "wait" => vf.waits = vf.polls - 1 /\ vf.onlineAt = 0
  /\ vf.pc = "done" =>
       /\ vf.lastStep = "poll"
       /\ vf.waits = vf.polls - 1
       /\ vf.ret.success <=> vf.onlineAt # 0
       /\ vf.ret.success => vf.onlineAt = vf.polls
       /\ ~vf.ret.success =>
            /\ vf.polls = vf.retries
            /\ vf.waits = vf.retries - 1
            /\ vf.ret.error = ErrNotStarted

\* retries = 3, delayMs = 2000, statuses [not online, not online, online].
C7_Witness ==
  /\ vf.pc = "done"
  /\ vf.retries = DefaultRetries /\ vf.delayMs = DefaultDelayMs
  /\ vf.ret.success
  /\ vf.polls = 3 /\ vf.onlineAt = 3
  /\ vf.waits = 2
  /\ vf.elapsed >= 4000

(***************************************************************************)
(* The transfer.  Paths and patterns are sequences of characters, so that  *)
(* startsWith, the "*" test and the regular expression built from a        *)
(* pattern are computed as the source computes them.                       *)
(***************************************************************************)
Slash == "/"
Star  == "*"
Dot   == "."

\* The files below the working directory, in the order readdirSync lists
\* them (depth first):  .e   d/a   d/ab   d/n/a   p
LocalFiles ==
  << <<".", "e">>,
     <<"d", "/", "a">>,
     <<"d", "/", "a", "b">>,
     <<"d", "/", "n", "/", "a">>,
     <<"p">> >>

StartsWith(str, prefix) ==
  Len(prefix) <= Len(str) /\ SubSeq(str, 1, Len(prefix)) = prefix

Includes(str, ch) == \E i \in 1..Len(str) : str[i] = ch

\* pattern.replace(/\/$/, ""), and what path.join does to a trailing slash
\* before readdirSync: "d/" names the directory d.
StripSlash(path) ==
  IF Len(path) > 0 /\ path[Len(path)] = Slash
    THEN SubSeq(path, 1, Len(path) - 1) ELSE path

\* The last component of a path (entry.name).
RECURSIVE LastSlash(_, _)
LastSlash(path, i) ==
  IF i = 0 THEN 0
  ELSE IF path[i] = Slash THEN i ELSE LastSlash(path, i - 1)

BaseName(path) == SubSeq(path, LastSlash(path, Len(path)) + 1, Len(path))

\* existsSync / statSync on join(cwd, pattern)
IsLocalFile(path) == \E i \in 1..Len(LocalFiles) : LocalFiles[i] = path

IsLocalDir(path) ==
  /\ Len(path) > 0
  /\ \E i \in 1..Len(LocalFiles) :
       StartsWith(LocalFiles[i], Append(path, Slash))

ExistsLocal(pattern) ==
  IsLocalFile(pattern) \/ IsLocalDir(StripSlash(pattern))

\* new RegExp(pattern.replace(/\*/g, ".*")).test(str): "*" stands for any
\* string, "." for any one character, every other character for itself,
\* and the match may start anywhere in str.
RECURSIVE RegexHere(_, _, _, _)
RegexHere(pat, i, str, j) ==
  IF i > Len(pat) THEN TRUE
  ELSE IF pat[i] = Star
    THEN \E k \in j..(Len(str) + 1) : RegexHere(pat, i + 1, str, k)
  ELSE IF j > Len(str) THEN FALSE
  ELSE IF pat[i] = Dot THEN RegexHere(pat, i + 1, str, j + 1)
  ELSE pat[i] = str[j] /\ RegexHere(pat, i + 1, str, j + 1)

RegexTest(pat, str) == \E j \in 1..(Len(str) + 1) : RegexHere(pat, 1, str, j)

\* A variant that excludes every entry as soon as there is a pattern.
ShouldExclude_AnyPattern(relativePath, name, exclude) == Len(exclude) > 0

\* rsync.ts 190-197: the test of one entry against the exclude patterns.
ShouldExclude(relativePath, name, exclude) ==
  \E k \in 1..Len(exclude) :
    IF Includes(exclude[k], Star)
      THEN RegexTest(exclude[k], relativePath)
      ELSE StartsWith(relativePath, exclude[k]) \/ name = exclude[k]

\* readdirSync(dir): the entries of a directory, in listing order.
EntryOf(dir, file) ==
  LET rest == SubSeq(file, Len(dir) + 2, Len(file))
      cut  == CHOOSE i \in 1..(Len(rest) + 1) :
                /\ i = Len(rest) + 1 \/ rest[i] = Slash
                /\ \A h \in 1..(i - 1) : rest[h] # Slash
  IN SubSeq(file, 1, Len(dir) + cut)

RECURSIVE EntriesFrom(_, _)
EntriesFrom(dir, i) ==
  IF i > Len(LocalFiles) THEN <<>>
  ELSE LET f == LocalFiles[i]
           tail == EntriesFrom(dir, i + 1)
       IN IF ~StartsWith(f, Append(dir, Slash)) THEN tail
          ELSE LET e == EntryOf(dir, f)
               IN IF Len(tail) > 0 /\ tail[1] = e THEN tail
                  ELSE <<e>> \o tail

ReadDir(dir) == EntriesFrom(dir, 1)

\* rsync.ts 174-209
RECURSIVE WalkDirectory(_, _)
RECURSIVE WalkEntries(_, _, _)
WalkEntries(entries, i, exclude) ==
  IF i > Len(entries) THEN <<>>
  ELSE LET fullPath == entries[i]
           rest == WalkEntries(entries, i + 1, exclude)
       IN IF ShouldExclude(fullPath, BaseName(fullPath), exclude) THEN rest
          ELSE IF IsLocalDir(fullPath)
            THEN WalkDirectory(fullPath, exclude) \o rest
          ELSE <<fullPath>> \o rest

WalkDirectory(dir, exclude) ==
  IF ~IsLocalDir(dir) THEN <<>>
  ELSE WalkEntries(ReadDir(dir), 1, exclude)

\* rsync.ts 227-251: the files to upload, pattern by pattern.
RECURSIVE FilesToUpload(_, _, _)
FilesToUpload(include, i, exclude) ==
  IF i > Len(include) THEN <<>>
  ELSE LET pattern == include[i]
           rest == FilesToUpload(include, i + 1, exclude)
       IN IF ~ExistsLocal(pattern) THEN rest
          ELSE IF IsLocalDir(StripSlash(pattern))
            THEN WalkDirectory(StripSlash(pattern), exclude) \o rest
          ELSE <<pattern>> \o rest

(***************************************************************************)
(* upload: the method selector, uploadWithRsync and uploadWithSFTP.        *)
(***************************************************************************)
ErrInlineKey  == "rsync requires privateKeyPath"
ErrNoSources  == "No files to upload. Make sure build output exists."
ErrNoFiles    == "No files to upload"
ErrRsync      == "rsync exited with an error"
ErrSftpClient == "ssh2 client error"
ErrSftpChan   == "sftp channel error"

UploadResult(method, n, success, error) ==
  [method |-> method, filesTransferred |-> n, success |-> success,
   error |-> error]

NoUpload == UploadResult("none", 0, FALSE, "pending")

\* rsync.ts 385
HasKeyPath(ssh) == ssh.privateKeyPath

\* A variant that looks at the password alone.
IsPasswordAuth_PasswordOnly(ssh) == ssh.password

\* rsync.ts 386
IsPasswordAuth(ssh) ==
  ssh.password /\ ~ssh.privateKey /\ ~HasKeyPath(ssh)

\* rsync.ts 389
KeyBranch(cfg, rsyncAvailable, ssh) ==
  cfg.useRsync /\ rsyncAvailable /\ HasKeyPath(ssh)

\* rsync.ts 395
PasswordBranch(cfg, rsyncAvailable, ssh) ==
  cfg.useRsync /\ rsyncAvailable /\ IsPasswordAuth(ssh)

\* rsync.ts 59
RsyncRefusesInlineKey(ssh) ==
  ~ssh.privateKeyPath /\ ssh.privateKey /\ ~ssh.password

\* rsync.ts 66-74: rsync is run through sshpass for password authentication.
UsePassword(ssh) == ssh.password /\ ~ssh.privateKeyPath

RsyncCommand(ssh) == IF UsePassword(ssh) THEN "sshpass" ELSE "rsync"

\* rsync.ts 100-107: the include patterns that exist locally.
Sources(include) == SelectSeq(include, ExistsLocal)

UpIdle == [pc |-> "idle", rsyncAvailable |-> FALSE, probes |-> <<>>,
           selected |-> "none", branch |-> "none", attempts |-> <<>>,
           command |-> "-", threw |-> FALSE,
           ret |-> NoUpload]

\* started: the files uploadNext took, in order; pending: those whose remote
\* directories are being made; dirs: for each file in flight, the directory
\* requests made so far, how many called back, and whether one reported an
\* error; open: those with a write stream open;
\* errored: those whose stream reported an error and may still report its
\* close; attempted: those whose stream reported its first close or error.
SfIdle == [pc |-> "idle", filesToUpload |-> <<>>, currentFileIndex |-> 0,
           filesTransferred |-> 0, attempted |-> <<>>, written |-> <<>>,
           started |-> <<>>, pending |-> {}, open |-> {}, errored |-> {},
           dirs |-> {}, ended |-> FALSE, ret |-> NoUpload,
           ready |-> FALSE, chain |-> "none"]

\* The promise of uploadWithSFTP is settled.
Delivered(s) == s.pc \in {"done", "returned"}

\* rsync.ts 226: resolve, of the promise uploadWithSFTP returns; a promise
\* keeps the outcome of the first call and ignores every later one.
Deliver(s, outcome) ==
  IF Delivered(s) THEN s
  ELSE [s EXCEPT !.pc = "done", !.ret = outcome]

SftpFail(error) == UploadResult("sftp", 0, FALSE, error)

\* A variant that asks the client to connect whatever was enumerated.
SfEnter_AlwaysConnects(cfg) ==
  [SfIdle EXCEPT !.pc = "connecting",
                 !.filesToUpload = FilesToUpload(cfg.include, 1, cfg.exclude)]

\* rsync.ts 222-261 and 365: the executor of the promise runs at the call:
\* it lists the files, resolves at once when there are none, and otherwise
\* asks the client to connect.
SfEnter(cfg) ==
  LET files == FilesToUpload(cfg.include, 1, cfg.exclude)
  IN IF Len(files) = 0
       THEN [SfIdle EXCEPT !.pc = "done", !.ret = SftpFail(ErrNoFiles)]
       ELSE [SfIdle EXCEPT !.pc = "connecting", !.filesToUpload = files]

\* The components of a relative path: the text between its slashes.
RECURSIVE SplitPath(_, _, _)
SplitPath(str, i, word) ==
  IF i > Len(str)
    THEN IF word = <<>> THEN <<>> ELSE <<word>>
  ELSE IF str[i] = Slash
    THEN (IF word = <<>> THEN <<>> ELSE <<word>>)
           \o SplitPath(str, i + 1, <<>>)
  ELSE SplitPath(str, i + 1, Append(word, str[i]))

\* The components of the upload remotePath.
RemoteRoot == << <<"app">> >>

\* rsync.ts 244 and 295-296, 309: the components of dirname(remote), where
\* remote is join(remotePath, relativePath).
RemoteDirParts(file) ==
  LET parts == SplitPath(file, 1, <<>>)
  IN RemoteRoot \o SubSeq(parts, 1, Len(parts) - 1)

\* rsync.ts 316: currentPath after index + 1 components.
DirPath(file, depth) == SubSeq(RemoteDirParts(file), 1, depth)

DirsOf(s, file) == CHOOSE d \in s.dirs : d.file = file

\* rsync.ts 300-305 and 317: a directory request calls back; its error is
\* not looked at.
DirBack(d, err) ==
  [d EXCEPT !.back = d.back + 1, !.failed = d.failed \/ err]

\* rsync.ts 288-318: uploadNext takes the file at currentFileIndex and
\* requests the first directory of its remote parent path.
SfTake(s) ==
  LET file == s.filesToUpload[s.currentFileIndex + 1]
  IN [s EXCEPT !.pc = IF Delivered(s) THEN s.pc ELSE "file",
               !.chain = "file",
               !.started = Append(s.started, file),
               !.pending = s.pending \cup {file},
               !.dirs = s.dirs \cup
                 {[file |-> file, made |-> <<DirPath(file, 1)>>,
                   back |-> 0, failed |-> FALSE]}]

\* A variant that fails the transfer when no file was written.
SfNext_FailsWhenNoneWritten(s) ==
  IF s.currentFileIndex >= Len(s.filesToUpload)
    THEN Deliver([s EXCEPT !.chain = "over", !.ended = TRUE],
                 UploadResult("sftp", s.filesTransferred,
                              s.filesTransferred > 0, ErrSftpChan))
    ELSE SfTake(s)

\* rsync.ts 277-286: uploadNext when every file has had its turn.
SfNext(s) ==
  IF s.currentFileIndex >= Len(s.filesToUpload)
    THEN Deliver([s EXCEPT !.chain = "over", !.ended = TRUE],
                 UploadResult("sftp", s.filesTransferred, TRUE, NoError))
    ELSE SfTake(s)

\* rsync.ts 384-407: await isRsyncAvailable(), then the choice.
UP_CheckRsync ==
  /\ up.pc = "checkRsync"
  /\ LET u == [up EXCEPT !.rsyncAvailable = rsyncInstalled,
                         !.probes = Append(up.probes, "rsync")]
     IN IF KeyBranch(uploadConfig, rsyncInstalled, sshConfig)
          THEN up' = [u EXCEPT !.selected = "rsync",
                               !.attempts = Append(up.attempts, "rsync"), !.branch = "key",
                               !.pc = "rsync"]
               /\ sf' = sf
        ELSE IF PasswordBranch(uploadConfig, rsyncInstalled, sshConfig)
          THEN up' = [u EXCEPT !.pc = "checkSshpass"] /\ sf' = sf
        ELSE up' = [u EXCEPT !.selected = "sftp",
                               !.attempts = Append(up.attempts, "sftp"), !.branch = "fallback",
                             !.pc = "sftp"]
             /\ sf' = SfEnter(uploadConfig)
  /\ UNCHANGED <<sshConfig, uploadConfig, rsyncInstalled, sshpassInstalled>>
  /\ UNCHANGED <<pm2Vars, shipVars, libVars>>

\* rsync.ts 396-407: await isSshpassAvailable(), then the choice.
UP_CheckSshpass ==
  /\ up.pc = "checkSshpass"
  /\ LET u == [up EXCEPT !.probes = Append(up.probes, "sshpass")]
     IN IF sshpassInstalled
          THEN up' = [u EXCEPT !.selected = "rsync",
                               !.attempts = Append(up.attempts, "rsync"), !.branch = "password",
                               !.pc = "rsync"]
               /\ sf' = sf
          ELSE up' = [u EXCEPT !.selected = "sftp",
                               !.attempts = Append(up.attempts, "sftp"), !.branch = "fallback",
                               !.pc = "sftp"]
               /\ sf' = SfEnter(uploadConfig)
  /\ UNCHANGED <<sshConfig, uploadConfig, rsyncInstalled, sshpassInstalled>>
  /\ UNCHANGED <<pm2Vars, shipVars, libVars>>

\* rsync.ts 55-123: uploadWithRsync up to the rsync invocation.
UP_RsyncStart ==
  /\ up.pc = "rsync"
  /\ IF RsyncRefusesInlineKey(sshConfig)
       THEN up' = [up EXCEPT !.pc = "done", !.threw = TRUE,
                     !.ret = UploadResult("none", 0, FALSE, ErrInlineKey)]
     ELSE IF Len(Sources(uploadConfig.include)) = 0
       THEN up' = [up EXCEPT !.pc = "done", !.threw = TRUE,
                     !.command = RsyncCommand(sshConfig),
                     !.ret = UploadResult("none", 0, FALSE, ErrNoSources)]
     ELSE up' = [up EXCEPT !.pc = "rsyncRun",
                   !.command = RsyncCommand(sshConfig)]
  /\ UNCHANGED <<sshConfig, uploadConfig, rsyncInstalled, sshpassInstalled,
                 sf>>
  /\ UNCHANGED <<pm2Vars, shipVars, libVars>>

\* A variant of the end of the invocation that falls back to a full copy
\* when rsync fails.
UP_RsyncExit_FallsBack ==
  /\ up.pc = "rsyncRun"
  /\ \/ /\ up' = [up EXCEPT !.pc = "done",
                    !.ret = UploadResult("rsync",
                              Len(Sources(uploadConfig.include)), TRUE,
                              NoError)]
        /\ sf' = sf
     \/ /\ up' = [up EXCEPT !.pc = "sftp", !.selected = "sftp",
                    !.attempts = Append(up.attempts, "sftp")]
        /\ sf' = SfEnter(uploadConfig)
  /\ UNCHANGED <<sshConfig, uploadConfig, rsyncInstalled, sshpassInstalled>>
  /\ UNCHANGED <<pm2Vars, shipVars, libVars>>

\* rsync.ts 124-168: the invocation ends.
UP_RsyncExit ==
  /\ up.pc = "rsyncRun"
  /\ \E ok \in BOOLEAN :
       up' = [up EXCEPT !.pc = "done",
                !.ret = IF ok
                  THEN UploadResult("rsync",
                         Len(Sources(uploadConfig.include)), TRUE, NoError)
                  ELSE UploadResult("rsync", 0, FALSE, ErrRsync)]
  /\ UNCHANGED <<sshConfig, uploadConfig, rsyncInstalled, sshpassInstalled,
                 sf>>
  /\ UNCHANGED <<pm2Vars, shipVars, libVars>>

\* rsync.ts 263 and 356-363: the client becomes ready, or reports an error.
Sftp_Connect ==
  /\ sf.pc = "connecting"
  /\ \E ready \in BOOLEAN :
       sf' = IF ready
               THEN [sf EXCEPT !.pc = "channel", !.chain = "channel",
                               !.ready = TRUE]
               ELSE Deliver(sf, SftpFail(ErrSftpClient))
  /\ UNCHANGED <<sshConfig, uploadConfig, rsyncInstalled, sshpassInstalled,
                 up>>
  /\ UNCHANGED <<pm2Vars, shipVars, libVars>>

\* rsync.ts 264-275 and 352: the SFTP channel opens, or does not.
Sftp_Channel ==
  /\ sf.chain = "channel"
  /\ \E opened \in BOOLEAN :
       sf' = IF opened THEN SfNext(sf)
             ELSE Deliver([sf EXCEPT !.chain = "over", !.ended = TRUE],
                          SftpFail(ErrSftpChan))
  /\ UNCHANGED <<sshConfig, uploadConfig, rsyncInstalled, sshpassInstalled,
                 up>>
  /\ UNCHANGED <<pm2Vars, shipVars, libVars>>

\* rsync.ts 311-318: a directory request that is not the last of its file
\* calls back, and createDirs requests the next directory.
Sftp_Mkdir ==
  /\ sf.chain = "file"
  /\ \E file \in sf.pending, err \in BOOLEAN :
       LET d == DirsOf(sf, file)
           e == DirBack(d, err)
       IN /\ d.back + 1 < Len(RemoteDirParts(file))
          /\ sf' = [sf EXCEPT !.dirs = (sf.dirs \ {d}) \cup
                      {[e EXCEPT !.made =
                          Append(d.made, DirPath(file, e.back + 1))]}]
  /\ UNCHANGED <<sshConfig, uploadConfig, rsyncInstalled, sshpassInstalled,
                 up>>
  /\ UNCHANGED <<pm2Vars, shipVars, libVars>>

\* A variant that opens the write stream whatever directories were made.
Sftp_Stream_BeforeDirs ==
  /\ sf.chain = "file"
  /\ \E file \in sf.pending, err \in BOOLEAN :
       LET d == DirsOf(sf, file)
       IN sf' = [sf EXCEPT !.dirs = (sf.dirs \ {d}) \cup {DirBack(d, err)},
                           !.pending = sf.pending \ {file},
                           !.open = sf.open \cup {file}]
  /\ UNCHANGED <<sshConfig, uploadConfig, rsyncInstalled, sshpassInstalled,
                 up>>
  /\ UNCHANGED <<pm2Vars, shipVars, libVars>>

\* rsync.ts 311-324: the last directory request of a file calls back, with
\* an error or without; createDirs is done and the read stream and the
\* remote write stream are created.
Sftp_Stream ==
  /\ sf.chain = "file"
  /\ \E file \in sf.pending, err \in BOOLEAN :
       LET d == DirsOf(sf, file)
       IN /\ d.back + 1 = Len(RemoteDirParts(file))
          /\ sf' = [sf EXCEPT !.dirs = (sf.dirs \ {d}) \cup {DirBack(d, err)},
                              !.pending = sf.pending \ {file},
                              !.open = sf.open \cup {file}]
  /\ UNCHANGED <<sshConfig, uploadConfig, rsyncInstalled, sshpassInstalled,
                 up>>
  /\ UNCHANGED <<pm2Vars, shipVars, libVars>>

\* rsync.ts 338-342: the close handler stays registered on a stream whose
\* error handler ran (344-347); a stream destroyed on its error reports
\* close as well, and the handler counts the file and calls uploadNext a
\* second time.
Sftp_CloseAfterError ==
  /\ sf.chain = "file"
  /\ \E file \in sf.errored :
       sf' = SfNext([sf EXCEPT
               !.errored = sf.errored \ {file},
               !.filesTransferred = sf.filesTransferred + 1,
               !.currentFileIndex = sf.currentFileIndex + 1])
  /\ UNCHANGED <<sshConfig, uploadConfig, rsyncInstalled, sshpassInstalled,
                 up>>
  /\ UNCHANGED <<pm2Vars, shipVars, libVars>>

\* rsync.ts 338-347: the first close or error of an open write stream; its
\* handler calls uploadNext.
Sftp_File ==
  /\ sf.chain = "file"
  /\ \E file \in sf.open, closed \in BOOLEAN :
       LET s == [sf EXCEPT !.attempted = Append(sf.attempted, file),
                           !.open = sf.open \ {file},
                           !.dirs = sf.dirs \ {DirsOf(sf, file)},
                           !.currentFileIndex = sf.currentFileIndex + 1]
       IN sf' = IF closed
                  THEN SfNext([s EXCEPT
                         !.filesTransferred = sf.filesTransferred + 1,
                         !.written = Append(sf.written, file)])
                  ELSE SfNext([s EXCEPT
                         !.errored = sf.errored \cup {file}])
  /\ UNCHANGED <<sshConfig, uploadConfig, rsyncInstalled, sshpassInstalled,
                 up>>
  /\ UNCHANGED <<pm2Vars, shipVars, libVars>>

\* rsync.ts 322 and 349: the read stream of an open file reports an error.
\* No handler is registered on it and pipe does not end the write stream, so
\* neither handler of the write stream runs: uploadNext is not called again
\* and Node raises the unhandled error event.
Sftp_ReadError ==
  /\ sf.chain = "file"
  /\ \E file \in sf.open :
       sf' = [sf EXCEPT !.chain = "broken",
                        !.attempted = Append(sf.attempted, file)]
  /\ UNCHANGED <<sshConfig, uploadConfig, rsyncInstalled, sshpassInstalled,
                 up>>
  /\ UNCHANGED <<pm2Vars, shipVars, libVars>>

\* rsync.ts 356-363: the client reports an error after it became ready (the
\* connection is lost); the handler resolves with the failure and does not
\* end the client. The callbacks of the upload chain still arrive afterwards.
Sftp_ClientError ==
  /\ sf.pc \in {"channel", "file"}
  /\ sf.chain # "broken"
  /\ sf' = Deliver(sf, SftpFail(ErrSftpClient))
  /\ UNCHANGED <<sshConfig, uploadConfig, rsyncInstalled, sshpassInstalled,
                 up>>
  /\ UNCHANGED <<pm2Vars, shipVars, libVars>>

\* rsync.ts 405: the promise of uploadWithSFTP is what upload returns.
UP_SftpReturned ==
  /\ up.pc = "sftp"
  /\ sf.pc = "done"
  /\ up' = [up EXCEPT !.pc = "done", !.ret = sf.ret]
  /\ sf' = [sf EXCEPT !.pc = "returned"]
  /\ UNCHANGED <<sshConfig, uploadConfig, rsyncInstalled, sshpassInstalled>>
  /\ UNCHANGED <<pm2Vars, shipVars, libVars>>

\* rsync.ts 378-383: entry.
UP_Call == up' = [UpIdle EXCEPT !.pc = "checkRsync"] /\ sf' = SfIdle

(***************************************************************************)
(* Configurations the transfer is exercised with.                          *)
(***************************************************************************)
\* The descriptors validation lets through: at least one credential.
SSHConfigs ==
  { c \in [privateKeyPath : BOOLEAN, privateKey : BOOLEAN, password : BOOLEAN] :
      c.privateKeyPath \/ c.privateKey \/ c.password }

KeyPathOnly == [privateKeyPath |-> TRUE, privateKey |-> FALSE,
                password |-> FALSE]
InlineKeyOnly == [privateKeyPath |-> FALSE, privateKey |-> TRUE,
                  password |-> FALSE]

DirD  == <<"d", "/">>
DirDN == <<"d", "/", "n">>
FileP == <<"p">>
FileE == <<".", "e">>
Missing == <<"x">>

IncludeChoices ==
  { <<DirD>>, <<FileP>>, <<FileE>>, <<DirD, FileP>>, <<Missing>>,
    <<DirDN, FileE>> }

ExcludePool ==
  << <<"n">>, <<"d", "/", "a">>, <<".", "e">>, <<"*", "b">>, <<"a">> >>

RECURSIVE PoolSeq(_)
PoolSeq(T) ==
  IF T = {} THEN <<>>
  ELSE LET m == CHOOSE x \in T : \A y \in T : x <= y
       IN <<ExcludePool[m]>> \o PoolSeq(T \ {m})

ExcludeChoices ==
  { PoolSeq(T) : T \in { U \in SUBSET (1..Len(ExcludePool)) :
                           Cardinality(U) <= MaxExclude } }

DefaultUpload == [useRsync |-> TRUE, include |-> <<DirD, FileP>>,
                  exclude |-> << <<"n">> >>]

InitUploadIdle ==
  /\ up = UpIdle
  /\ sf = SfIdle

InitUploadDefault ==
  /\ sshConfig = KeyPathOnly
  /\ uploadConfig = DefaultUpload
  /\ rsyncInstalled = TRUE
  /\ sshpassInstalled = FALSE
  /\ InitUploadIdle

(***************************************************************************)
(* upload called once, for every validated descriptor and tool set.        *)
(***************************************************************************)
InitUploadLocal ==
  /\ sshConfig \in SSHConfigs
  /\ uploadConfig \in [useRsync : BOOLEAN,
                       include : {<<DirD, FileP>>, <<Missing>>},
                       exclude : {<< <<"n">> >>}]
  /\ rsyncInstalled \in BOOLEAN
  /\ sshpassInstalled \in BOOLEAN
  /\ InitUploadIdle

UploadDriver ==
  /\ up.pc = "idle"
  /\ UP_Call
  /\ UNCHANGED <<sshConfig, uploadConfig, rsyncInstalled, sshpassInstalled>>
  /\ UNCHANGED <<pm2Vars, shipVars, libVars>>

(***************************************************************************)
(* uploadWithSFTP called once, for the include and exclude lists above.    *)
(***************************************************************************)
InitSftpLocal ==
  /\ sshConfig = InlineKeyOnly
  /\ uploadConfig \in [useRsync : {TRUE}, include : IncludeChoices,
                       exclude : ExcludeChoices]
  /\ rsyncInstalled = FALSE
  /\ sshpassInstalled = FALSE
  /\ InitUploadIdle

SftpDriver ==
  /\ up.pc = "idle"
  /\ sf.pc = "idle"
  /\ sf' = SfEnter(uploadConfig)
  /\ UNCHANGED <<sshConfig, uploadConfig, rsyncInstalled, sshpassInstalled,
                 up>>
  /\ UNCHANGED <<pm2Vars, shipVars, libVars>>

(***************************************************************************)
(* runBuild, runUpload and runPrepare as runShip sees them.                *)
(***************************************************************************)
ErrNoPackageJson == "package.json not found in current directory"
ErrBuildExit     == "build command failed"
ErrNoNextDir     == ".next directory not created. Build may have failed."
ErrLocalPrepare  == "local prepare failed"
ErrCopyStatic    == "failed to copy static files"
ErrCopyPublic    == "failed to copy public files"
ErrPrepareThrew  == "prepare: remote command could not be run"

StepResult(success, error) == [success |-> success, error |-> error]

\* What the build step meets on the local machine.
BuildEnvs ==
  [packageJson : BOOLEAN, exitZero : BOOLEAN, standaloneDir : BOOLEAN,
   nextDir : BOOLEAN, prepareOk : BOOLEAN]

\* build.ts 65-154
RunBuild(config, env) ==
  IF config.skipBuild THEN StepResult(TRUE, NoError)
  ELSE IF ~env.packageJson THEN StepResult(FALSE, ErrNoPackageJson)
  ELSE IF ~env.exitZero THEN StepResult(FALSE, ErrBuildExit)
  ELSE IF config.standalone /\ ~env.standaloneDir
    THEN StepResult(TRUE, NoError)
  ELSE IF ~env.nextDir THEN StepResult(FALSE, ErrNoNextDir)
  ELSE IF config.standalone /\ config.prepareLocally /\ ~env.prepareOk
    THEN StepResult(FALSE, ErrLocalPrepare)
  ELSE StepResult(TRUE, NoError)

\* build.ts 71-138: runBuild gets as far as runLocalPrepare, which copies
\* public and .next/static into the standalone output.
LocalPrepareRuns(config, env) ==
  /\ ~config.skipBuild
  /\ env.packageJson
  /\ env.exitZero
  /\ config.standalone
  /\ env.standaloneDir
  /\ env.nextDir
  /\ config.prepareLocally

\* The assets are in the standalone output when runLocalPrepare succeeded.
MergedLocally(config, env) == LocalPrepareRuns(config, env) /\ env.prepareOk

\* upload.ts 39-81: the result of upload, or the catch block's result when
\* upload threw.
RunUpload(u) ==
  IF u.threw
    THEN [success |-> FALSE, method |-> "sftp", error |-> u.ret.error]
    ELSE [success |-> u.ret.success, method |-> u.ret.method,
          error |-> u.ret.error]

\* prepare.ts 15-102: the two copies succeed, one of them fails, or a remote
\* command cannot be run.
PrepareOutcomes == {"ok", "static", "public", "threw"}

RunPrepare(outcome) ==
  CASE outcome = "ok"     -> StepResult(TRUE, NoError)
    [] outcome = "static" -> StepResult(FALSE, ErrCopyStatic)
    [] outcome = "public" -> StepResult(FALSE, ErrCopyPublic)
    [] OTHER              -> StepResult(FALSE, ErrPrepareThrew)

(***************************************************************************)
(* The text of the commands reloadApp sends, as sequences of characters    *)
(* (a run of letters such as "pm2" counts as one).                         *)
(***************************************************************************)
DQ == "\""
BS == "\\"
SP == " "
\* The backquote character (written out: the character itself cannot stand
\* in a string here).
BQ == "backquote"

\* pm2.ts 9: the character class that escapeShellValue tests for.
QuotedChars == {" ", "&", "|", "<", ">", "^", "\"", "'", BQ, "$", "\\"}

NeedsQuotes(value) == \E i \in 1..Len(value) : value[i] \in QuotedChars

\* pm2.ts 11: every double quote gets a backslash in front.
RECURSIVE EscapeQuotes(_)
EscapeQuotes(value) ==
  IF value = <<>> THEN <<>>
  ELSE (IF Head(value) = DQ THEN <<BS, DQ>> ELSE <<Head(value)>>)
         \o EscapeQuotes(Tail(value))

\* pm2.ts 8-14
EscapeShellValue(value) ==
  IF NeedsQuotes(value) THEN <<DQ>> \o EscapeQuotes(value) \o <<DQ>>
  ELSE value

\* pm2.ts 31 and 34: entries.map(...).join(sep)
RECURSIVE JoinEntries(_, _, _)
JoinEntries(env, isWindows, sep) ==
  LET e == Head(env)
      one == (IF isWindows THEN <<"set", SP>> ELSE <<>>)
               \o <<e.k, "=">> \o EscapeShellValue(e.v)
  IN IF Len(env) = 1 THEN one
     ELSE one \o sep \o JoinEntries(Tail(env), isWindows, sep)

\* pm2.ts 22-35
BuildEnvPrefix(env, isWindows) ==
  IF env = <<>> THEN <<>>
  ELSE IF isWindows
    THEN JoinEntries(env, TRUE, <<SP, "&&", SP>>) \o <<SP, "&&", SP>>
    ELSE JoinEntries(env, FALSE, <<SP>>) \o <<SP>>

\* The characters of a remotePath.
PathChars(path) ==
  CASE path = UnixPath -> <<"/", "var", "/", "www", "/", "app">>
    [] path = WslPath  -> <<"/", "mnt", "/", "c", "/", "app">>
    [] OTHER           -> <<>>

\* pm2.ts 62: whether remotePath starts with /mnt/
IsWindows(path) == StartsWith(PathChars(path), <<"/", "mnt", "/">>)

DriveLetters == {"c", "d"}

\* pm2.ts 63-65: the prefix /mnt/<letter>/ becomes <letter>: and two
\* backslashes, then every slash becomes a backslash.
WinPath(path) ==
  LET p == PathChars(path)
      q == IF /\ Len(p) >= 5
              /\ StartsWith(p, <<"/", "mnt", "/">>)
              /\ p[4] \in DriveLetters
              /\ p[5] = "/"
             THEN <<p[4], ":", BS, BS>> \o SubSeq(p, 6, Len(p))
             ELSE p
  IN [i \in 1..Len(q) |-> IF q[i] = "/" THEN BS ELSE q[i]]

\* pm2.ts 120: port ? { PORT: String(port), ...env } : env.  The spread
\* keeps the place of PORT and gives it the value env has for it, if any.
EnvWithPort(port, env) ==
  IF port = NoPort THEN env
  ELSE LET own == SelectSeq(env, LAMBDA e : e.k = "PORT")
       IN <<[k |-> "PORT", v |-> IF own = <<>> THEN port ELSE own[1].v]>>
            \o SelectSeq(env, LAMBDA e : e.k # "PORT")

IsStandaloneStart(cmd) == cmd.verb = "start" /\ cmd.flag = "--name"

\* pm2.ts 68 and 120-121: the mapping handed to buildEnvPrefix.
InjectedEnv(cmd, pm2) ==
  IF IsStandaloneStart(cmd) THEN EnvWithPort(pm2.port, pm2.env) ELSE pm2.env

\* pm2.ts 81, 88, 105, 117, 122 and 136: the template strings.
Render(cmd, path, pm2) ==
  LET envPrefix == BuildEnvPrefix(InjectedEnv(cmd, pm2), IsWindows(path))
      cd == <<"cd", SP, "/d", SP, DQ>> \o WinPath(path) \o <<DQ, SP, "&&", SP>>
  IN CASE cmd = ProbeCmd ->
            <<"if", SP, "exist", SP, DQ>> \o WinPath(path)
              \o <<BS, EcoConventional, DQ, SP, "echo", SP, "EXISTS">>
       [] cmd.verb = "jlist" -> <<"pm2", SP, "jlist">>
       [] cmd.verb = "save" -> <<"pm2", SP, "save">>
       [] cmd.verb \in {"reload", "restart"} ->
            envPrefix \o <<"pm2", SP, cmd.verb, SP, cmd.target, SP,
                           "--update-env">>
       [] cmd.verb = "start" /\ cmd.flag = "--only" ->
            cd \o envPrefix \o <<"pm2", SP, "start", SP, cmd.target, SP,
                                 "--only", SP, cmd.name>>
       [] OTHER ->
            cd \o envPrefix \o <<"pm2", SP, "start", SP, ".next", BS,
                                 "standalone", BS, "server.js", SP,
                                 "--name", SP, cmd.name>>

(***************************************************************************)
(* The remote shell reading a command line: a POSIX shell on a Unix host,  *)
(* cmd.exe on a Windows host.                                              *)
(***************************************************************************)
PosixOperators == {";", "&", "&&", "|", "<", ">", "(", ")"}

\* Inside double quotes a backslash quotes these and only these.
PosixDqEscapable == {"$", BQ, DQ, BS}

FlushWord(words, cur, has) == IF has THEN Append(words, cur) ELSE words

\* Word splitting and quote removal up to the first control operator.
\* mode is "plain", "dq" or "sq"; cur is the word being read, has tells
\* whether a word was begun.
RECURSIVE PosixScan(_, _, _, _, _, _, _)
PosixScan(text, i, mode, cur, has, words, expanded) ==
  IF i > Len(text)
    THEN [words |-> FlushWord(words, cur, has), expanded |-> expanded,
          operator |-> FALSE, open |-> mode # "plain"]
  ELSE LET c == text[i] IN
    CASE mode = "sq" ->
           IF c = "'"
             THEN PosixScan(text, i + 1, "plain", cur, TRUE, words, expanded)
             ELSE PosixScan(text, i + 1, "sq", Append(cur, c), TRUE, words,
                            expanded)
      [] mode = "dq" ->
           IF c = DQ
             THEN PosixScan(text, i + 1, "plain", cur, TRUE, words, expanded)
           ELSE IF c = BS /\ i < Len(text) /\ text[i + 1] \in PosixDqEscapable
             THEN PosixScan(text, i + 2, "dq", Append(cur, text[i + 1]), TRUE,
                            words, expanded)
           ELSE IF c \in {"$", BQ}
             THEN PosixScan(text, i + 1, "dq", cur, TRUE, words, TRUE)
           ELSE PosixScan(text, i + 1, "dq", Append(cur, c), TRUE, words,
                          expanded)
      [] OTHER ->
           IF c = SP
             THEN PosixScan(text, i + 1, "plain", <<>>, FALSE,
                            FlushWord(words, cur, has), expanded)
           ELSE IF c \in PosixOperators
             THEN [words |-> FlushWord(words, cur, has),
                   expanded |-> expanded, operator |-> TRUE, open |-> FALSE]
           ELSE IF c = BS
             THEN IF i < Len(text)
                    THEN PosixScan(text, i + 2, "plain",
                                   Append(cur, text[i + 1]), TRUE, words,
                                   expanded)
                    ELSE PosixScan(text, i + 1, "plain", cur, has, words,
                                   expanded)
           ELSE IF c = DQ
             THEN PosixScan(text, i + 1, "dq", cur, TRUE, words, expanded)
           ELSE IF c = "'"
             THEN PosixScan(text, i + 1, "sq", cur, TRUE, words, expanded)
           ELSE IF c \in {"$", BQ}
             THEN PosixScan(text, i + 1, "plain", cur, TRUE, words, TRUE)
           ELSE PosixScan(text, i + 1, "plain", Append(cur, c), TRUE, words,
                          expanded)

NotAssigned == <<"-">>

\* What a POSIX shell makes of "K=<value> pm2 ...": the value assigned, the
\* words of the command, and whether anything else came of the line.
PosixRead(text) ==
  LET r == PosixScan(text, 1, "plain", <<>>, FALSE, <<>>, FALSE)
      assigns == r.words # <<>> /\ Len(r.words[1]) >= 2 /\ r.words[1][2] = "="
  IN [assigned |-> IF assigns
                     THEN SubSeq(r.words[1], 3, Len(r.words[1]))
                     ELSE NotAssigned,
      command |-> IF assigns THEN Tail(r.words) ELSE r.words,
      expanded |-> r.expanded,
      extra |-> r.operator \/ r.open]

CmdOperators == {"&", "&&", "|", "<", ">"}

\* cmd.exe splitting a line into commands: a double quote toggles quoting
\* and stays in the text, a caret outside quotes takes the next character
\* literally, an operator outside quotes ends the command.
RECURSIVE CmdScan(_, _, _, _, _)
CmdScan(text, i, inQuote, cur, commands) ==
  IF i > Len(text)
    THEN [commands |-> Append(commands, cur), open |-> inQuote]
  ELSE LET c == text[i] IN
    IF c = DQ
      THEN CmdScan(text, i + 1, ~inQuote, Append(cur, c), commands)
    ELSE IF inQuote
      THEN CmdScan(text, i + 1, TRUE, Append(cur, c), commands)
    ELSE IF c = "^" /\ i < Len(text)
      THEN CmdScan(text, i + 2, FALSE, Append(cur, text[i + 1]), commands)
    ELSE IF c \in CmdOperators
      THEN CmdScan(text, i + 1, FALSE, <<>>, Append(commands, cur))
    ELSE CmdScan(text, i + 1, FALSE, Append(cur, c), commands)

RECURSIVE SplitWords(_, _, _)
SplitWords(text, cur, words) ==
  IF text = <<>> THEN (IF cur = <<>> THEN words ELSE Append(words, cur))
  ELSE IF Head(text) = SP
    THEN SplitWords(Tail(text), <<>>,
                    IF cur = <<>> THEN words ELSE Append(words, cur))
  ELSE SplitWords(Tail(text), Append(cur, Head(text)), words)

\* What cmd.exe makes of "set K=<value> && pm2 ...": set assigns everything
\* that follows the equals sign in its command, quotes and blanks included.
CmdRead(text) ==
  LET r == CmdScan(text, 1, FALSE, <<>>, <<>>)
      first == r.commands[1]
      sets == Len(first) >= 4 /\ first[1] = "set" /\ first[4] = "="
  IN [assigned |-> IF sets THEN SubSeq(first, 5, Len(first))
                   ELSE NotAssigned,
      command |-> IF sets
                    THEN (IF Len(r.commands) >= 2
                            THEN SplitWords(r.commands[2], <<>>, <<>>)
                            ELSE <<>>)
                    ELSE SplitWords(first, <<>>, <<>>),
      expanded |-> FALSE,
      extra |-> r.open \/ Len(r.commands) > (IF sets THEN 2 ELSE 1)]

ShellRead(text, isWindows) ==
  IF isWindows THEN CmdRead(text) ELSE PosixRead(text)

(***************************************************************************)
(* createSSHConnection, execCommand and execRemoteCommand.                 *)
(***************************************************************************)
\* ssh.ts 764-769: what createSSHConnection hands to client.connect: the
\* inline key, and nothing else.
ConnectConfig(ssh) == [privateKey |-> ssh.privateKey, password |-> FALSE]

\* rsync.ts 365-371: what uploadWithSFTP hands to client.connect.
SftpConnectConfig(ssh) ==
  [privateKey |-> ssh.privateKey, password |-> ssh.password]

\* The session is given something to authenticate with.
HasCredential(given) == given.privateKey \/ given.password

\* Commands sent through execRemoteCommand (prepare.ts 27, 36/62, 49/74).
OsProbe    == "uname -s"
CopyStatic == "copy .next/static"
CopyPublic == "copy public"

\* How a dispatched command ends: exitCode is what the stream's close event
\* carries ("null" when the command ended without one), marker tells whether
\* stdout holds the text the caller looks for.
ExecAnswers == [exitCode : {"zero", "nonzero", "null"}, marker : BOOLEAN]

\* ssh.ts 805-807: resolve({ stdout, stderr, code: code ?? 0 })
ExecResult(answer) ==
  [code |-> IF answer.exitCode = "nonzero" THEN 1 ELSE 0,
   marker |-> answer.marker]

NoExecResult == [code |-> -1, marker |-> FALSE]

NoAnswerYet == [exitCode |-> "-", marker |-> FALSE]

\* A session: what it was given, how many commands were dispatched on it,
\* and whether it is still open.
Session(given) == [given |-> given, ran |-> 0, open |-> TRUE]

ExIdle == [pc |-> "idle", command |-> "-", sessions |-> <<>>,
           dispatched |-> FALSE, answer |-> NoAnswerYet, ret |-> NoExecResult,
           threw |-> FALSE, error |-> NoError, calls |-> 0]

\* ssh.ts 837-841: entry.
ExCall(e, command) ==
  [e EXCEPT !.pc = "connect", !.command = command, !.dispatched = FALSE,
            !.answer = NoAnswerYet, !.ret = NoExecResult, !.threw = FALSE,
            !.error = NoError, !.calls = e.calls + 1]

\* A variant of the finally block that leaves the session open.
CloseLast_LeavesOpen(sessions) == sessions

\* ssh.ts 844-846: finally { conn.close() }
CloseLast(sessions) ==
  [sessions EXCEPT ![Len(sessions)].open = FALSE]

\* ssh.ts 841 and 761-786: the client becomes ready, or reports an error and
\* createSSHConnection rejects.
EX_Connect ==
  /\ ex.pc = "connect"
  /\ \E ready \in BOOLEAN :
       ex' = IF ready
               THEN [ex EXCEPT
                      !.pc = "dispatch",
                      !.sessions = Append(ex.sessions,
                                          Session(ConnectConfig(sshConfig)))]
               ELSE [ex EXCEPT !.pc = "done", !.threw = TRUE,
                               !.error = ErrConnect]
  /\ UNCHANGED <<pm2Vars, upVars, shipVars, tx, pr, lc, auxVars>>

\* ssh.ts 796-800: client.exec calls back with an error, or with the stream.
EX_Dispatch ==
  /\ ex.pc = "dispatch"
  /\ \E err \in BOOLEAN :
       ex' = IF err
               THEN [ex EXCEPT !.pc = "done", !.threw = TRUE,
                               !.error = ErrExec,
                               !.sessions = CloseLast(ex.sessions)]
               ELSE [ex EXCEPT
                      !.pc = "running", !.dispatched = TRUE,
                      !.sessions[Len(ex.sessions)].ran =
                         ex.sessions[Len(ex.sessions)].ran + 1]
  /\ UNCHANGED <<pm2Vars, upVars, shipVars, tx, pr, lc, auxVars>>

\* A variant that raises when the command exits nonzero.
EX_Close_ThrowsOnNonzero ==
  /\ ex.pc = "running"
  /\ \E answer \in ExecAnswers :
       ex' = IF answer.exitCode = "nonzero"
               THEN [ex EXCEPT !.pc = "done", !.answer = answer,
                               !.threw = TRUE, !.error = ErrExec,
                               !.sessions = CloseLast(ex.sessions)]
               ELSE [ex EXCEPT !.pc = "done", !.answer = answer,
                               !.ret = ExecResult(answer),
                               !.sessions = CloseLast(ex.sessions)]
  /\ UNCHANGED <<pm2Vars, upVars, shipVars, tx, pr, lc, auxVars>>

\* ssh.ts 805-807 and 843-846: the stream closes, the result is returned and
\* the session is closed.
EX_Close ==
  /\ ex.pc = "running"
  /\ \E answer \in ExecAnswers :
       ex' = [ex EXCEPT !.pc = "done", !.answer = answer,
                        !.ret = ExecResult(answer),
                        !.sessions = CloseLast(ex.sessions)]
  /\ UNCHANGED <<pm2Vars, upVars, shipVars, tx, pr, lc, auxVars>>

(***************************************************************************)
(* runPrepare on top of execRemoteCommand.                                 *)
(***************************************************************************)
PrIdle == [pc |-> "idle", isWindows |-> FALSE, ret |-> StepResult(FALSE, "pending")]

\* prepare.ts 28
TargetIsWindows(result) == result.marker \/ result.code # 0

\* prepare.ts 38 and 51 (xcopy), 64 and 76 (cp)
CopyFailed(isWindows, result) ==
  IF isWindows THEN result.code # 0 /\ ~result.marker
  ELSE result.code # 0

PrReturn(p, outcome) == [p EXCEPT !.pc = "done", !.ret = RunPrepare(outcome)]

\* prepare.ts 15-27
PR_Call ==
  /\ pr.pc = "idle"
  /\ ex.pc = "idle"
  /\ pr' = [PrIdle EXCEPT !.pc = "os"]
  /\ ex' = ExCall(ex, OsProbe)
  /\ UNCHANGED <<pm2Vars, upVars, shipVars, tx, lc, auxVars>>

\* prepare.ts 27-36 (62): the OS probe returned, or threw.
PR_AfterOs ==
  /\ pr.pc = "os"
  /\ ex.pc = "done"
  /\ IF ex.threw
       THEN pr' = PrReturn(pr, "threw") /\ ex' = [ex EXCEPT !.pc = "idle"]
       ELSE /\ pr' = [pr EXCEPT !.pc = "static",
                                !.isWindows = TargetIsWindows(ex.ret)]
            /\ ex' = ExCall(ex, CopyStatic)
  /\ UNCHANGED <<pm2Vars, upVars, shipVars, tx, lc, auxVars>>

\* prepare.ts 36-49 (62-74): the copy of .next/static returned, or threw.
PR_AfterStatic ==
  /\ pr.pc = "static"
  /\ ex.pc = "done"
  /\ IF ex.threw
       THEN pr' = PrReturn(pr, "threw") /\ ex' = [ex EXCEPT !.pc = "idle"]
     ELSE IF CopyFailed(pr.isWindows, ex.ret)
       THEN pr' = PrReturn(pr, "static") /\ ex' = [ex EXCEPT !.pc = "idle"]
     ELSE pr' = [pr EXCEPT !.pc = "public"] /\ ex' = ExCall(ex, CopyPublic)
  /\ UNCHANGED <<pm2Vars, upVars, shipVars, tx, lc, auxVars>>

\* prepare.ts 49-91 (74-91): the copy of public returned, or threw.
PR_AfterPublic ==
  /\ pr.pc = "public"
  /\ ex.pc = "done"
  /\ ex' = [ex EXCEPT !.pc = "idle"]
  /\ pr' = IF ex.threw THEN PrReturn(pr, "threw")
           ELSE IF CopyFailed(pr.isWindows, ex.ret)
             THEN PrReturn(pr, "public")
           ELSE PrReturn(pr, "ok")
  /\ UNCHANGED <<pm2Vars, upVars, shipVars, tx, lc, auxVars>>

(***************************************************************************)
(* buildEnvPrefix applied to the configured environment, and the host's    *)
(* shell reading the command that carries the prefix.                      *)
(***************************************************************************)
NoRead == [assigned |-> NotAssigned, command |-> <<>>, expanded |-> FALSE,
           extra |-> FALSE]

TxIdle == [pc |-> "idle", command |-> NoCommand, env |-> NoEnv,
           text |-> <<>>, read |-> NoRead]

\* pm2.ts 62-68 and 104-105: the prefix, put in front of the reload command.
TX_Build ==
  /\ tx.pc = "idle"
  /\ LET command == ExistsCommand(pm2Config.reload, pm2Config.appName) IN
     tx' = [tx EXCEPT
       !.pc = "built",
       !.command = command,
       !.env = InjectedEnv(command, pm2Config),
       !.text = Render(command, remotePath, pm2Config)]
  /\ UNCHANGED <<pm2Vars, upVars, shipVars, ex, pr, lc, auxVars>>

\* pm2.ts 62-68 and 115-123: the prefix, put in front of a start command.
TX_BuildStart ==
  /\ tx.pc = "idle"
  /\ remotePath # ""
  /\ \E ecosystemFile \in {NoFile, EcoConventional} :
       LET command == StartCommand(ecosystemFile, pm2Config.appName) IN
       tx' = [tx EXCEPT
         !.pc = "built",
         !.command = command,
         !.env = InjectedEnv(command, pm2Config),
         !.text = Render(command, remotePath, pm2Config)]
  /\ UNCHANGED <<pm2Vars, upVars, shipVars, ex, pr, lc, auxVars>>

\* The host's shell reads the command.
TX_Read ==
  /\ tx.pc = "built"
  /\ tx' = [tx EXCEPT !.pc = "read",
                      !.read = ShellRead(tx.text, IsWindows(remotePath))]
  /\ UNCHANGED <<pm2Vars, upVars, shipVars, ex, pr, lc, auxVars>>

(***************************************************************************)
(* loadConfig and the validation of the connection descriptor.             *)
(***************************************************************************)
ErrKeyFile       == "SSH private key file not found"
ErrInvalidConfig == "Invalid configuration"

\* A credential field of the merged configuration: left out, the empty
\* string, or a non-empty string.
Raw == {"absent", "empty", "set"}

\* What "if (x)", "!x", "a || b" and Boolean(x) make of a field.
Truthy(value) == value = "set"

RawDescriptors == [privateKeyPath : Raw, privateKey : Raw, password : Raw]

\* The key file loadConfig may have to read.
KeyFiles == {"missing", "empty", "content"}

\* A variant of the validation that lets every descriptor through.
SshRefine_Always(data) == TRUE

\* schema 13-16: the refinement of sshConfigSchema.
SshRefine(data) ==
  Truthy(data.privateKeyPath) \/ Truthy(data.privateKey)
    \/ Truthy(data.password)

\* loader 213: the key is read from its file when only the path is given.
ReadsKeyFile(data) ==
  Truthy(data.privateKeyPath) /\ ~Truthy(data.privateKey)

\* A variant of loadConfig that returns the merged configuration as it is.
LoadConfig_Unvalidated(raw, keyFile) ==
  [ok |-> TRUE, error |-> NoError, ssh |-> raw]

\* loader 181-233, for the connection descriptor.
LoadConfig(raw, keyFile) ==
  IF ReadsKeyFile(raw) /\ keyFile = "missing"
    THEN [ok |-> FALSE, error |-> ErrKeyFile, ssh |-> raw]
  ELSE LET merged ==
             IF ReadsKeyFile(raw)
               THEN [raw EXCEPT !.privateKey =
                       IF keyFile = "content" THEN "set" ELSE "empty"]
               ELSE raw
       IN IF SshRefine(merged)
            THEN [ok |-> TRUE, error |-> NoError, ssh |-> merged]
            ELSE [ok |-> FALSE, error |-> ErrInvalidConfig, ssh |-> merged]

\* The descriptor as upload and the remote sessions read it.
CredentialsOf(data) ==
  [privateKeyPath |-> Truthy(data.privateKeyPath),
   privateKey |-> Truthy(data.privateKey),
   password |-> Truthy(data.password)]

NoCredentials == [privateKeyPath |-> FALSE, privateKey |-> FALSE,
                  password |-> FALSE]

CliStart(raw, keyFile) ==
  [pc |-> "start", raw |-> raw, keyFile |-> keyFile, exitCode |-> -1,
   error |-> NoError]

\* The configuration is loaded (the caller of runShip holds a Config).
CliLoaded ==
  [pc |-> "run", raw |-> [privateKeyPath |-> "set", privateKey |-> "absent",
                          password |-> "absent"],
   keyFile |-> "content", exitCode |-> -1, error |-> NoError]

(***************************************************************************)
(* loadConfig from the config file and the environment.  A field holds     *)
(* "undefined", or says where its value comes from ("file", "env",         *)
(* "keyfile", "default"); the two build flags hold "true" or "false".      *)
(***************************************************************************)
Undefined == "undefined"

ConfigFields ==
  {"host", "user", "port", "privateKey", "privateKeyPath", "password",
   "command", "standalone", "skipBuild", "remotePath", "appName",
   "ecosystem"}

IsSet(variable) == variable = "set"

FromEnv(variable) == IF IsSet(variable) THEN "env" ELSE Undefined

\* config/index.ts 77-116: getEnvConfig.  SSH_PASSWORD is not read.
GetEnvConfig(env) ==
  [host           |-> FromEnv(env.SSH_HOST),
   user           |-> FromEnv(env.SSH_USER),
   port           |-> FromEnv(env.SSH_PORT),
   privateKey     |-> IF IsSet(env.SSH_KEY) THEN "env"
                      ELSE IF IsSet(env.SSH_KEY_PATH) THEN Undefined
                      ELSE IF IsSet(env.SSH_PRIVATE_KEY) THEN "env"
                      ELSE Undefined,
   privateKeyPath |-> IF ~IsSet(env.SSH_KEY) /\ IsSet(env.SSH_KEY_PATH)
                        THEN "env" ELSE Undefined,
   password       |-> Undefined,
   command        |-> FromEnv(env.BUILD_COMMAND),
   standalone     |-> IF env.STANDALONE # "false" THEN "true" ELSE "false",
   skipBuild      |-> IF env.SKIP_BUILD = "true" THEN "true" ELSE "false",
   remotePath     |-> FromEnv(env.REMOTE_PATH),
   appName        |-> FromEnv(env.PM2_APP_NAME),
   ecosystem      |-> FromEnv(env.PM2_ECOSYSTEM)]

\* A variant that reads SSH_PASSWORD and leaves the build flags undefined
\* when their variables are unset.
GetEnvConfig_OnlyWhenSet(env) ==
  [GetEnvConfig(env) EXCEPT
     !.password = FromEnv(env.SSH_PASSWORD),
     !.standalone = IF env.STANDALONE = "unset" THEN Undefined
                    ELSE env.STANDALONE,
     !.skipBuild = IF env.SKIP_BUILD = "unset" THEN Undefined
                   ELSE env.SKIP_BUILD]

\* config/index.ts 119-171 and 199-205: filterUndefined, then deepMerge with
\* the environment taking precedence.
DeepMerge(target, source) ==
  [f \in ConfigFields |->
     IF source[f] = Undefined THEN target[f] ELSE source[f]]

ToRaw(value) == IF value = Undefined THEN "absent" ELSE "set"

\* schema.ts 7-8, 28 and 52: the fields that must be present.
RequiredFields == {"host", "user", "remotePath", "appName"}

\* schema.ts 9, 21-23 and 53-54: defaults for what is left undefined.
WithDefaults(config) ==
  [f \in ConfigFields |->
     IF config[f] # Undefined THEN config[f]
     ELSE CASE f = "standalone" -> "true"
            [] f = "skipBuild" -> "false"
            [] f \in {"port", "command"} -> "default"
            [] OTHER -> Undefined]

\* config/index.ts 181-233
LoadConfigFrom(file, env, keyFile) ==
  LET merged == DeepMerge(file, GetEnvConfig(env))
      r == LoadConfig([privateKeyPath |-> ToRaw(merged.privateKeyPath),
                       privateKey |-> ToRaw(merged.privateKey),
                       password |-> ToRaw(merged.password)], keyFile)
      withKey == IF merged.privateKey = Undefined /\ r.ssh.privateKey # "absent"
                   THEN [merged EXCEPT !.privateKey = "keyfile"]
                   ELSE merged
  IN IF r.error = ErrKeyFile
       THEN [ok |-> FALSE, error |-> ErrKeyFile, config |-> merged]
     ELSE IF ~r.ok \/ \E f \in RequiredFields : merged[f] = Undefined
       THEN [ok |-> FALSE, error |-> ErrInvalidConfig, config |-> withKey]
     ELSE [ok |-> TRUE, error |-> NoError, config |-> WithDefaults(withKey)]

LcIdle == [pc |-> "idle", file |-> [f \in ConfigFields |-> Undefined],
           env |-> <<>>, keyFile |-> "content",
           result |-> [ok |-> FALSE, error |-> "pending",
                       config |-> [f \in ConfigFields |-> Undefined]]]

\* config/index.ts 181-233, called with the file and environment at hand.
LC_Load ==
  /\ lc.pc = "start"
  /\ lc' = [lc EXCEPT !.pc = "done",
                      !.result = LoadConfigFrom(lc.file, lc.env, lc.keyFile)]
  /\ UNCHANGED <<pm2Vars, upVars, shipVars, tx, ex, pr, auxVars>>

(***************************************************************************)
(* uploadWithRsync reading what rsync wrote.  A line of output is a        *)
(* sequence of tokens; kind says what rsync meant by the line: the path of *)
(* a file, a line of statistics or other information, or a blank line.     *)
(***************************************************************************)
Blank == " "

OutputLine(kind, tokens) == [kind |-> kind, tokens |-> tokens]

NumberOfFiles(token) ==
  OutputLine("info", <<"Number", Blank, "of", Blank, "files:", Blank, token>>)

OutputLines ==
  { OutputLine("blank", <<>>),
    OutputLine("file", <<"d/a">>),
    OutputLine("file", <<"Total", ".txt">>),
    OutputLine("info", <<"send", "ing", Blank, "incremental", Blank, "file",
                         Blank, "list">>),
    OutputLine("info", <<"sent", Blank, "10", Blank, "bytes">>),
    OutputLine("info", <<"total", Blank, "size", Blank, "is", Blank, "10">>),
    OutputLine("info", <<"Total", Blank, "bytes", Blank, "sent:", Blank,
                         "10">>),
    NumberOfFiles("3"),
    NumberOfFiles("0"),
    NumberOfFiles("many") }

\* parseInt of a run of digits and commas, commas removed.
CountValue == [t \in {"0", "3", "10"} |-> IF t = "0" THEN 0
                                          ELSE IF t = "3" THEN 3 ELSE 10]

\* String.prototype.trim on a line of tokens.
RECURSIVE Trim(_)
Trim(tokens) ==
  IF tokens = <<>> THEN tokens
  ELSE IF Head(tokens) = Blank THEN Trim(Tail(tokens))
  ELSE IF tokens[Len(tokens)] = Blank
    THEN Trim(SubSeq(tokens, 1, Len(tokens) - 1))
  ELSE tokens

\* rsync.ts 135: the match of "Number of files:", blanks, digits and commas
\* in one line; 0 tokens long when there is none.
FilesMatchIn(tokens) ==
  LET phrase == <<"Number", Blank, "of", Blank, "files:">>
      at == { i \in 1..Len(tokens) :
                /\ i + Len(phrase) <= Len(tokens)
                /\ SubSeq(tokens, i, i + Len(phrase) - 1) = phrase
                /\ Trim(SubSeq(tokens, i + Len(phrase), Len(tokens))) # <<>>
                /\ Head(Trim(SubSeq(tokens, i + Len(phrase), Len(tokens))))
                     \in DOMAIN CountValue }
  IN IF at = {} THEN <<>>
     ELSE LET i == CHOOSE k \in at : \A j \in at : k <= j
          IN <<Head(Trim(SubSeq(tokens, i + Len(phrase), Len(tokens))))>>

\* rsync.ts 135: the first match in stdout.
RECURSIVE FilesMatch(_)
FilesMatch(stdout) ==
  IF stdout = <<>> THEN <<>>
  ELSE IF FilesMatchIn(Head(stdout).tokens) # <<>>
    THEN FilesMatchIn(Head(stdout).tokens)
  ELSE FilesMatch(Tail(stdout))

\* rsync.ts 141-144: the prefixes of the lines that are not counted.
StatsPrefixes ==
  { <<"Number">>, <<"Total">>, <<"sent">>, <<"File", Blank, "list">>,
    <<"Matched">>, <<"Unmatched">> }

\* rsync.ts 140-145: the filter of the fallback count.
LooksLikePath(line) ==
  LET trimmed == Trim(line.tokens)
  IN trimmed # <<>> /\ \A prefix \in StatsPrefixes :
                         ~StartsWith(trimmed, prefix)

\* rsync.ts 135-147
FilesTransferred(stdout) ==
  LET filesMatch == FilesMatch(stdout)
      parsed == IF filesMatch # <<>> THEN CountValue[filesMatch[1]] ELSE 0
  IN IF parsed = 0
       THEN Len(SelectSeq(stdout, LooksLikePath))
       ELSE parsed

\* rsync.ts 124-168: the outcome for what execa resolved or rejected with.
RsyncOutcome(exitedZero, stdout) ==
  IF exitedZero
    THEN UploadResult("rsync", FilesTransferred(stdout), TRUE, NoError)
    ELSE UploadResult("rsync", 0, FALSE, ErrRsync)

RsIdle == [pc |-> "idle", stdout |-> <<>>, exitedZero |-> FALSE,
           ret |-> NoUpload]

\* rsync.ts 124-128: rsync is run.
RS_Run ==
  /\ rs.pc = "idle"
  /\ rs' = [rs EXCEPT !.pc = "running"]
  /\ UNCHANGED <<pm2Vars, upVars, shipVars, coreLibVars, rc>>

RECURSIVE Outputs(_)
Outputs(n) ==
  IF n = 0 THEN {<<>>}
  ELSE Outputs(n - 1) \cup
       { Append(out, line) : out \in Outputs(n - 1), line \in OutputLines }

\* rsync.ts 124-168: rsync exits, having written up to MaxLines lines.
RS_Exit ==
  /\ rs.pc = "running"
  /\ \E exitedZero \in BOOLEAN, stdout \in Outputs(MaxLines) :
       rs' = [rs EXCEPT !.pc = "done", !.stdout = stdout,
                        !.exitedZero = exitedZero,
                        !.ret = RsyncOutcome(exitedZero, stdout)]
  /\ UNCHANGED <<pm2Vars, upVars, shipVars, coreLibVars, rc>>

(***************************************************************************)
(* Two reloadApp calls for the same service at once: two deployments of    *)
(* the same application meet on the host.  Every session opens and every   *)
(* command is dispatched; the supervisor runs one command at a time and    *)
(* answers with exit code 0 exactly when it accepts the command.           *)
(***************************************************************************)
Callers == 1..2

RcCall == [pc |-> "idle", ecosystemFile |-> NoFile, appExists |-> FALSE,
           command |-> NoCommand, sent |-> <<>>, ret |-> NoResult]

RcIdle == [i \in Callers |-> RcCall]

RcUnchanged ==
  UNCHANGED <<pm2Config, remotePath, verifyArgs, ecoOnDisk, ra, vf, rr,
              calls, raLog, upVars, shipVars, coreLibVars, rs>>

\* pm2.ts 50-85: entry, the session, the resolution without a probe.
RC_Call(i) ==
  /\ rc[i].pc = "idle"
  /\ rc' = [rc EXCEPT ![i] =
       [RcCall EXCEPT
          !.ecosystemFile = StaticEcosystemFile(pm2Config.ecosystem),
          !.pc = IF NeedsProbe(pm2Config.ecosystem, remotePath)
                   THEN "probe" ELSE "jlist"]]
  /\ UNCHANGED procTable
  /\ RcUnchanged

\* pm2.ts 81-84
RC_Probe(i) ==
  /\ rc[i].pc = "probe"
  /\ rc' = [rc EXCEPT ![i] =
       [@ EXCEPT !.sent = Append(@, ProbeCmd),
                 !.ecosystemFile = ProbedEcosystemFile(ecoOnDisk),
                 !.pc = "jlist"]]
  /\ UNCHANGED procTable
  /\ RcUnchanged

\* pm2.ts 88-124
RC_Jlist(i) ==
  /\ rc[i].pc = "jlist"
  /\ LET out == [code |-> 0, parses |-> TRUE, apps |-> procTable]
         exists == AppExists(out, pm2Config.appName)
         c == [rc[i] EXCEPT !.sent = Append(@, JlistCmd),
                            !.appExists = exists]
     IN rc' = [rc EXCEPT ![i] =
          IF MissingRemotePath(exists, remotePath)
            THEN [c EXCEPT !.pc = "done", !.ret = Fail(ErrNoRemotePath)]
            ELSE [c EXCEPT
                   !.command = ChooseCommand(exists, pm2Config.reload,
                                 c.ecosystemFile, pm2Config.appName),
                   !.pc = "exec"]]
  /\ UNCHANGED procTable
  /\ RcUnchanged

\* pm2.ts 126-133
RC_Exec(i) ==
  /\ rc[i].pc = "exec"
  /\ LET c == [rc[i] EXCEPT !.sent = Append(@, rc[i].command)] IN
     IF SupervisorAccepts(procTable, rc[i].command)
       THEN /\ procTable' = SupervisorApply(procTable, rc[i].command)
            /\ rc' = [rc EXCEPT ![i] = [c EXCEPT !.pc = "save"]]
       ELSE /\ UNCHANGED procTable
            /\ rc' = [rc EXCEPT ![i] =
                 [c EXCEPT !.pc = "done", !.ret = Fail(ErrCommand)]]
  /\ RcUnchanged

\* pm2.ts 136-143
RC_Save(i) ==
  /\ rc[i].pc = "save"
  /\ rc' = [rc EXCEPT ![i] =
       [@ EXCEPT !.sent = Append(@, SaveCmd),
                 !.pc = "done",
                 !.ret = Ok(SuccessStatus(rc[i].appExists,
                                          rc[i].ecosystemFile))]]
  /\ UNCHANGED procTable
  /\ RcUnchanged

RC_AnyCall == \E i \in Callers : RC_Call(i)
RC_AnyProbe == \E i \in Callers : RC_Probe(i)
RC_AnyJlist == \E i \in Callers : RC_Jlist(i)
RC_AnyExec == \E i \in Callers : RC_Exec(i)
RC_AnySave == \E i \in Callers : RC_Save(i)

InitLibIdle ==
  /\ tx = TxIdle /\ ex = ExIdle /\ pr = PrIdle /\ lc = LcIdle
  /\ rs = RsIdle /\ rc = RcIdle

(***************************************************************************)
(* runShip                                                                 *)
(***************************************************************************)
StepNames == {"build", "upload", "prepare", "restart"}

NoStep == [ran |-> FALSE, success |-> FALSE, error |-> NoError]

ShIdle == [pc |-> "idle", invoked |-> <<>>,
           returned |-> [n \in StepNames |-> NoStep],
           steps |-> [n \in StepNames |-> "absent"],
           method |-> "absent", success |-> FALSE, error |-> NoError,
           merged |-> <<>>]

\* ship.ts 66-69
EffectiveBuildConfig(options, build) ==
  [build EXCEPT !.skipBuild = options.skipBuild \/ build.skipBuild]

\* ship.ts 99
NeedsPrepare(build) == build.standalone /\ ~build.prepareLocally

\* A variant that goes on whatever the step returned.
StepFailed_Ignored(result) == FALSE

\* ship.ts 77, 91, 106, 120: if (!<step>Result.success)
StepFailed(result) == ~result.success

\* A variant that keeps a record of the successful steps only.
Record_SuccessOnly(s, name, result) ==
  IF result.success
    THEN [s EXCEPT !.returned[name] = [ran |-> TRUE, success |-> TRUE,
                                       error |-> result.error],
                   !.steps[name] = "success"]
    ELSE [s EXCEPT !.returned[name] = [ran |-> TRUE, success |-> FALSE,
                                       error |-> result.error]]

\* ship.ts 72-75 (and 85-89, 101-104, 115-118): the step is recorded.
Record(s, name, result) ==
  [s EXCEPT !.returned[name] = [ran |-> TRUE, success |-> result.success,
                                error |-> result.error],
            !.steps[name] = IF result.success THEN "success" ELSE "failure"]

\* ship.ts 78-80 (and 92-94, 107-109, 121-123): the early return.
Abort(s, result) == [s EXCEPT !.pc = "done", !.error = result.error]

Invoke(s, name) == [s EXCEPT !.pc = name, !.invoked = Append(s.invoked, name)]

pm2Inputs == <<pm2Config, remotePath, verifyArgs, procTable, ecoOnDisk,
               calls, raLog>>
upInputs == <<sshConfig, uploadConfig, rsyncInstalled, sshpassInstalled>>
shipInputs == <<shipOptions, buildConfig, cli>>

\* A variant whose entry does not look at the dry-run option.
SH_Call_IgnoresDryRun ==
  /\ cli.pc = "run"
  /\ sh.pc = "idle"
  /\ sh' = Invoke(ShIdle, "build")
  /\ UNCHANGED <<pm2Vars, upVars, shipInputs, libVars>>

\* ship.ts 29-71: entry; the dry run returns at once, otherwise runBuild is
\* called.
SH_Call ==
  /\ cli.pc = "run"
  /\ sh.pc = "idle"
  /\ sh' = IF shipOptions.dryRun
             THEN [ShIdle EXCEPT !.pc = "done", !.success = TRUE]
             ELSE Invoke(ShIdle, "build")
  /\ UNCHANGED <<pm2Vars, upVars, shipInputs, libVars>>

\* ship.ts 71-84: runBuild returned; runUpload is called.
SH_AfterBuild ==
  /\ sh.pc = "build"
  /\ \E env \in BuildEnvs :
       LET result == RunBuild(EffectiveBuildConfig(shipOptions, buildConfig),
                              env)
           s == [Record(sh, "build", result) EXCEPT
                  !.merged = IF MergedLocally(
                                  EffectiveBuildConfig(shipOptions,
                                                       buildConfig), env)
                               THEN Append(sh.merged, "local")
                               ELSE sh.merged]
       IN IF StepFailed(result)
            THEN sh' = Abort(s, result) /\ UNCHANGED <<up, sf>>
            ELSE sh' = Invoke(s, "upload") /\ UP_Call
  /\ UNCHANGED <<pm2Vars, upInputs, shipInputs, libVars>>

\* ship.ts 84-114: runUpload returned; runPrepare or runRestart is called.
SH_AfterUpload ==
  /\ sh.pc = "upload"
  /\ up.pc = "done"
  /\ up' = [up EXCEPT !.pc = "returned"]
  /\ LET result == RunUpload(up)
         s == [Record(sh, "upload", result) EXCEPT !.method = result.method]
     IN IF StepFailed(result)
          THEN sh' = Abort(s, result) /\ UNCHANGED <<ra, vf, rr>>
        ELSE IF NeedsPrepare(buildConfig)
          THEN sh' = Invoke(s, "prepare") /\ UNCHANGED <<ra, vf, rr>>
        ELSE sh' = Invoke(s, "restart") /\ RR_Call
  /\ UNCHANGED <<pm2Inputs, upInputs, sf, shipInputs, libVars>>

\* ship.ts 100-114: runPrepare returned; runRestart is called.
SH_AfterPrepare ==
  /\ sh.pc = "prepare"
  /\ \E outcome \in PrepareOutcomes :
       LET result == RunPrepare(outcome)
           s == [Record(sh, "prepare", result) EXCEPT
                  !.merged = IF outcome = "ok"
                               THEN Append(sh.merged, "remote")
                               ELSE sh.merged]
       IN IF StepFailed(result)
            THEN sh' = Abort(s, result) /\ UNCHANGED <<ra, vf, rr>>
            ELSE sh' = Invoke(s, "restart") /\ RR_Call
  /\ UNCHANGED <<pm2Inputs, upVars, shipInputs, libVars>>

\* ship.ts 114-140: runRestart returned.
SH_AfterRestart ==
  /\ sh.pc = "restart"
  /\ rr.pc = "done"
  /\ rr' = [rr EXCEPT !.pc = "returned"]
  /\ LET s == Record(sh, "restart", rr.ret)
     IN sh' = IF StepFailed(rr.ret) THEN Abort(s, rr.ret)
              ELSE [s EXCEPT !.pc = "done", !.success = TRUE]
  /\ UNCHANGED <<pm2Inputs, ra, vf, upVars, shipInputs, libVars>>

(***************************************************************************)
(* The specifications.  Each exercises one part of the program; the other  *)
(* parts stay as they are after construction.                              *)
(***************************************************************************)
PasswordOnly == [privateKeyPath |-> FALSE, privateKey |-> FALSE,
                 password |-> TRUE]

InitPM2Default ==
  /\ pm2Config = [appName |-> AppName, reload |-> TRUE,
                  ecosystem |-> EcoAuto, env |-> NoEnv,
                  port |-> NoPort]
  /\ remotePath = UnixPath
  /\ verifyArgs = [retries |-> DefaultRetries, delayMs |-> DefaultDelayMs]
  /\ procTable = <<>>
  /\ ecoOnDisk = FALSE
  /\ InitPM2Idle

InitShipIdle ==
  /\ shipOptions = [dryRun |-> FALSE, skipBuild |-> FALSE]
  /\ buildConfig = [skipBuild |-> FALSE, standalone |-> TRUE,
                    prepareLocally |-> TRUE]
  /\ sh = ShIdle
  /\ InitLibIdle
  /\ cli = CliLoaded

\* reloadApp, called up to MaxCalls times.
NextReload ==
  \/ ReloadDriver
  \/ RA_Connect
  \/ RA_Probe
  \/ RA_Jlist
  \/ RA_Exec
  \/ RA_Save
  \/ ReloadReturned

InitReload == InitReloadPM2 /\ InitUploadDefault /\ InitShipIdle

SpecReload == InitReload /\ [][NextReload]_vars

\* verifyAppRunning, called once.
NextVerify ==
  \/ VerifyDriver
  \/ V_Poll
  \/ V_Wait

InitVerify == InitVerifyPM2 /\ InitUploadDefault /\ InitShipIdle

SpecVerify == InitVerify /\ [][NextVerify]_vars

\* upload, called once.
NextUpload ==
  \/ UploadDriver
  \/ UP_CheckRsync
  \/ UP_CheckSshpass
  \/ UP_RsyncStart
  \/ UP_RsyncExit
  \/ Sftp_Connect
  \/ Sftp_Channel
  \/ Sftp_Mkdir
  \/ Sftp_Stream
  \/ Sftp_File
  \/ Sftp_CloseAfterError
  \/ Sftp_ReadError
  \/ Sftp_ClientError
  \/ UP_SftpReturned

InitUpload == InitPM2Default /\ InitUploadLocal /\ InitShipIdle

SpecUpload == InitUpload /\ [][NextUpload]_vars

\* uploadWithSFTP, called once.
NextSftp ==
  \/ SftpDriver
  \/ Sftp_Connect
  \/ Sftp_Channel
  \/ Sftp_Mkdir
  \/ Sftp_Stream
  \/ Sftp_File
  \/ Sftp_CloseAfterError
  \/ Sftp_ReadError
  \/ Sftp_ClientError

InitSftp == InitPM2Default /\ InitSftpLocal /\ InitShipIdle

SpecSftp == InitSftp /\ [][NextSftp]_vars

\* The full copy when the requests it makes are answered: the SFTP channel
\* request and every directory request call back, and every file attempt
\* ends, by the close or the error of its write stream or by a read error.
SftpFairness ==
  /\ WF_vars(Sftp_Channel)
  /\ WF_vars(Sftp_Mkdir)
  /\ WF_vars(Sftp_Stream)
  /\ WF_vars(Sftp_File \/ Sftp_ReadError)

SpecSftpFair == InitSftp /\ [][NextSftp]_vars /\ SftpFairness

\* runShip, called once.
InitShip ==
  /\ pm2Config = [appName |-> AppName, reload |-> TRUE,
                  ecosystem |-> EcoAuto, env |-> NoEnv,
                  port |-> NoPort]
  /\ remotePath = UnixPath
  /\ verifyArgs = [retries |-> DefaultRetries, delayMs |-> DefaultDelayMs]
  /\ procTable \in {<<>>, <<OtherName, AppName>>}
  /\ ecoOnDisk \in BOOLEAN
  /\ InitPM2Idle
  /\ sshConfig \in {KeyPathOnly, PasswordOnly}
  /\ uploadConfig = DefaultUpload
  /\ rsyncInstalled \in BOOLEAN
  /\ sshpassInstalled \in BOOLEAN
  /\ InitUploadIdle
  /\ shipOptions \in [dryRun : BOOLEAN, skipBuild : BOOLEAN]
  /\ buildConfig \in [skipBuild : {FALSE}, standalone : BOOLEAN,
                      prepareLocally : BOOLEAN]
  /\ sh = ShIdle
  /\ InitLibIdle
  /\ cli = CliLoaded

NextShip ==
  \/ SH_Call
  \/ SH_AfterBuild
  \/ UP_CheckRsync
  \/ UP_CheckSshpass
  \/ UP_RsyncStart
  \/ UP_RsyncExit
  \/ Sftp_Connect
  \/ Sftp_Channel
  \/ Sftp_Mkdir
  \/ Sftp_Stream
  \/ Sftp_File
  \/ Sftp_CloseAfterError
  \/ Sftp_ReadError
  \/ Sftp_ClientError
  \/ UP_SftpReturned
  \/ SH_AfterUpload
  \/ SH_AfterPrepare
  \/ RA_Connect
  \/ RA_Probe
  \/ RA_Jlist
  \/ RA_Exec
  \/ RA_Save
  \/ RR_AfterReload
  \/ V_Poll
  \/ V_Wait
  \/ RR_AfterVerify
  \/ SH_AfterRestart

SpecShip == InitShip /\ [][NextShip]_vars

(***************************************************************************)
(* The "ship" command: loadConfig, then runShip, then the exit code.       *)
(***************************************************************************)
\* cli.ts 149-150 and 160-162: await loadConfig; what it throws is caught,
\* shown, and ends the process with code 1.
CLI_LoadConfig ==
  /\ cli.pc = "start"
  /\ LET r == LoadConfig(cli.raw, cli.keyFile)
     IN IF r.ok
          THEN /\ cli' = [cli EXCEPT !.pc = "run"]
               /\ sshConfig' = CredentialsOf(r.ssh)
          ELSE /\ cli' = [cli EXCEPT !.pc = "exit", !.exitCode = 1,
                                     !.error = r.error]
               /\ sshConfig' = sshConfig
  /\ UNCHANGED <<pm2Vars, uploadConfig, rsyncInstalled, sshpassInstalled,
                 up, sf, shipOptions, buildConfig, sh, libVars>>

\* cli.ts 151-159: runShip returned; a failed run ends the process with 1.
CLI_ShipReturned ==
  /\ cli.pc = "run"
  /\ sh.pc = "done"
  /\ cli' = [cli EXCEPT !.pc = "exit",
                        !.exitCode = IF sh.success THEN 0 ELSE 1]
  /\ UNCHANGED <<pm2Vars, upVars, shipOptions, buildConfig, sh, libVars>>

InitCli ==
  /\ pm2Config = [appName |-> AppName, reload |-> TRUE,
                  ecosystem |-> EcoAuto, env |-> NoEnv,
                  port |-> NoPort]
  /\ remotePath = UnixPath
  /\ verifyArgs = [retries |-> DefaultRetries, delayMs |-> DefaultDelayMs]
  /\ procTable = <<OtherName, AppName>>
  /\ ecoOnDisk = FALSE
  /\ InitPM2Idle
  /\ sshConfig = NoCredentials
  /\ uploadConfig = DefaultUpload
  /\ rsyncInstalled \in BOOLEAN
  /\ sshpassInstalled = TRUE
  /\ InitUploadIdle
  /\ shipOptions \in [dryRun : BOOLEAN, skipBuild : {TRUE}]
  /\ buildConfig \in [skipBuild : {FALSE}, standalone : {TRUE},
                      prepareLocally : BOOLEAN]
  /\ sh = ShIdle
  /\ InitLibIdle
  /\ \E raw \in RawDescriptors, keyFile \in KeyFiles :
       cli = CliStart(raw, keyFile)

NextCli ==
  \/ CLI_LoadConfig
  \/ SH_Call
  \/ SH_AfterBuild
  \/ UP_CheckRsync
  \/ UP_CheckSshpass
  \/ UP_RsyncStart
  \/ UP_RsyncExit
  \/ Sftp_Connect
  \/ Sftp_Channel
  \/ Sftp_Mkdir
  \/ Sftp_Stream
  \/ Sftp_File
  \/ Sftp_CloseAfterError
  \/ Sftp_ReadError
  \/ Sftp_ClientError
  \/ UP_SftpReturned
  \/ SH_AfterUpload
  \/ SH_AfterPrepare
  \/ RA_Connect
  \/ RA_Probe
  \/ RA_Jlist
  \/ RA_Exec
  \/ RA_Save
  \/ RR_AfterReload
  \/ V_Poll
  \/ V_Wait
  \/ RR_AfterVerify
  \/ SH_AfterRestart
  \/ CLI_ShipReturned

SpecCli == InitCli /\ [][NextCli]_vars

(***************************************************************************)
(* buildEnvPrefix on one variable whose value has up to MaxValueLen        *)
(* characters, for a Unix path, a /mnt/ path and no path.                  *)
(***************************************************************************)
ValueChars == {"a", " ", "\"", "'", "$", ";", "\\"}

RECURSIVE ValuesUpTo(_)
ValuesUpTo(n) ==
  IF n = 0 THEN {<<>>}
  ELSE LET shorter == ValuesUpTo(n - 1)
       IN shorter \cup {Append(v, c) : v \in shorter, c \in ValueChars}

EnvChoices ==
  {NoEnv, PortEnv}
    \cup {<< [k |-> "K", v |-> v] >> : v \in ValuesUpTo(MaxValueLen)}

InitText ==
  /\ pm2Config \in [appName : {AppName}, reload : BOOLEAN,
                    ecosystem : {EcoAuto}, env : EnvChoices,
                    port : {NoPort, FixedPort}]
  /\ remotePath \in {"", UnixPath, WslPath}
  /\ verifyArgs = [retries |-> DefaultRetries, delayMs |-> DefaultDelayMs]
  /\ procTable = <<>>
  /\ ecoOnDisk = FALSE
  /\ InitPM2Idle
  /\ InitUploadDefault
  /\ InitShipIdle

NextText ==
  \/ TX_Build
  \/ TX_BuildStart
  \/ TX_Read

SpecText == InitText /\ [][NextText]_vars

(***************************************************************************)
(* The remote side of a deployment: runPrepare, then reloadApp, for the    *)
(* descriptors loadConfig returns.                                         *)
(***************************************************************************)
\* A key path, with the key loadConfig read from the file.
KeyLoaded == [privateKeyPath |-> TRUE, privateKey |-> TRUE,
              password |-> FALSE]

InitExec ==
  /\ pm2Config = [appName |-> AppName, reload |-> TRUE,
                  ecosystem |-> EcoAuto, env |-> NoEnv,
                  port |-> NoPort]
  /\ remotePath \in {UnixPath, WslPath}
  /\ verifyArgs = [retries |-> DefaultRetries, delayMs |-> DefaultDelayMs]
  /\ procTable \in {<<>>, <<OtherName, AppName>>}
  /\ ecoOnDisk \in BOOLEAN
  /\ InitPM2Idle
  /\ sshConfig \in {KeyLoaded, InlineKeyOnly, PasswordOnly}
  /\ uploadConfig = DefaultUpload
  /\ rsyncInstalled = TRUE
  /\ sshpassInstalled = FALSE
  /\ InitUploadIdle
  /\ InitShipIdle

\* ship.ts 106-114: reloadApp follows a successful runPrepare.
RestartAfterPrepare ==
  /\ pr.pc = "done"
  /\ pr.ret.success
  /\ calls = 0
  /\ ReloadDriver

NextExec ==
  \/ PR_Call
  \/ EX_Connect
  \/ EX_Dispatch
  \/ EX_Close
  \/ PR_AfterOs
  \/ PR_AfterStatic
  \/ PR_AfterPublic
  \/ RestartAfterPrepare
  \/ RA_Connect
  \/ RA_Probe
  \/ RA_Jlist
  \/ RA_Exec
  \/ RA_Save
  \/ ReloadReturned

SpecExec == InitExec /\ [][NextExec]_vars

(***************************************************************************)
(* loadConfig alone: every combination of environment variables over three *)
(* config files, with the key file present or missing.                     *)
(***************************************************************************)
Switch == {"unset", "set"}

Flag == {"unset", "true", "false"}

Environments ==
  [SSH_HOST : Switch, SSH_USER : Switch, SSH_PORT : Switch,
   SSH_KEY : Switch, SSH_KEY_PATH : Switch, SSH_PRIVATE_KEY : Switch,
   SSH_PASSWORD : Switch, BUILD_COMMAND : Switch, STANDALONE : Flag,
   SKIP_BUILD : Flag, REMOTE_PATH : Switch, PM2_APP_NAME : Switch,
   PM2_ECOSYSTEM : Switch]

NoConfigFile == [f \in ConfigFields |-> Undefined]

TargetOnlyFile ==
  [NoConfigFile EXCEPT !.remotePath = "file", !.appName = "file"]

FullConfigFile ==
  [f \in ConfigFields |->
     CASE f = "standalone" -> "false"
       [] f = "skipBuild" -> "true"
       [] f \in {"privateKey", "privateKeyPath"} -> Undefined
       [] OTHER -> "file"]

ConfigFiles == {NoConfigFile, TargetOnlyFile, FullConfigFile}

InitLoad ==
  /\ pm2Config = [appName |-> AppName, reload |-> TRUE,
                  ecosystem |-> EcoAuto, env |-> NoEnv,
                  port |-> NoPort]
  /\ remotePath = UnixPath
  /\ verifyArgs = [retries |-> DefaultRetries, delayMs |-> DefaultDelayMs]
  /\ procTable = <<>>
  /\ ecoOnDisk = FALSE
  /\ InitPM2Idle
  /\ InitUploadDefault
  /\ InitShipIdle

\* cli.ts: a command calls loadConfig in the working directory and process
\* environment it was started with.
LC_Call ==
  /\ lc.pc = "idle"
  /\ \E file \in ConfigFiles, env \in Environments,
        keyFile \in {"content", "missing"} :
       lc' = [lc EXCEPT !.pc = "start", !.file = file, !.env = env,
                        !.keyFile = keyFile]
  /\ UNCHANGED <<pm2Vars, upVars, shipVars, tx, ex, pr, auxVars>>

NextLoad ==
  \/ LC_Call
  \/ LC_Load

SpecLoad == InitLoad /\ [][NextLoad]_vars

(***************************************************************************)
(* uploadWithRsync on every output of up to MaxLines lines.                *)
(***************************************************************************)
InitStats ==
  /\ pm2Config = [appName |-> AppName, reload |-> TRUE,
                  ecosystem |-> EcoAuto, env |-> NoEnv,
                  port |-> NoPort]
  /\ remotePath = UnixPath
  /\ verifyArgs = [retries |-> DefaultRetries, delayMs |-> DefaultDelayMs]
  /\ procTable = <<>>
  /\ ecoOnDisk = FALSE
  /\ InitPM2Idle
  /\ InitUploadDefault
  /\ InitShipIdle

NextStats ==
  \/ RS_Run
  \/ RS_Exit

SpecStats == InitStats /\ [][NextStats]_vars

(***************************************************************************)
(* Two reloadApp calls at once, for every descriptor mode and table.       *)
(***************************************************************************)
InitRace ==
  /\ pm2Config \in PM2Configs
  /\ remotePath = UnixPath
  /\ verifyArgs = [retries |-> DefaultRetries, delayMs |-> DefaultDelayMs]
  /\ procTable \in InitialTables
  /\ ecoOnDisk \in BOOLEAN
  /\ InitPM2Idle
  /\ InitUploadDefault
  /\ InitShipIdle

NextRace ==
  \/ RC_AnyCall
  \/ RC_AnyProbe
  \/ RC_AnyJlist
  \/ RC_AnyExec
  \/ RC_AnySave

SpecRace == InitRace /\ [][NextRace]_vars

(***************************************************************************)
(* Properties of upload (SpecUpload).                                      *)
(***************************************************************************)
Chosen == up.branch # "none"

\* The rule of the four booleans.
MethodOfFour(rsyncAvailable, keyPath, password, sshpass) ==
  IF rsyncAvailable /\ keyPath THEN "key"
  ELSE IF rsyncAvailable /\ password /\ sshpass THEN "password"
  ELSE "fallback"

\* The rule with the inline key as a fifth input.
MethodOfFive(rsyncAvailable, keyPath, inlineKey, password, sshpass) ==
  IF rsyncAvailable /\ keyPath THEN "key"
  ELSE IF rsyncAvailable /\ password /\ ~inlineKey /\ sshpass THEN "password"
  ELSE "fallback"

\* C2 as stated: with a plan that prefers rsync, the method upload chooses
\* is determined by {rsync available, key path present, password present,
\* sshpass available}: rsync with the key, else rsync through sshpass, else
\* SFTP, whatever the other fields of the connection descriptor are.
C2_FourBooleans ==
  (Chosen /\ uploadConfig.useRsync) =>
    up.branch = MethodOfFour(rsyncInstalled, sshConfig.privateKeyPath,
                             sshConfig.password, sshpassInstalled)

\* C2, amended: the method is determined by five booleans, the four above
\* and "inline private key present": rsync through sshpass is chosen only
\* when no inline key is present; a plan that does not prefer rsync always
\* gets SFTP.
C2_FiveBooleans ==
  Chosen =>
    /\ uploadConfig.useRsync =>
         up.branch = MethodOfFive(rsyncInstalled, sshConfig.privateKeyPath,
                                  sshConfig.privateKey, sshConfig.password,
                                  sshpassInstalled)
    /\ ~uploadConfig.useRsync => up.branch = "fallback"
    /\ up.selected = (IF up.branch = "fallback" THEN "sftp" ELSE "rsync")

\* Password and inline key, no key path, rsync and sshpass installed: SFTP.
C2_Witness ==
  /\ uploadConfig.useRsync /\ rsyncInstalled /\ sshpassInstalled
  /\ sshConfig.password /\ sshConfig.privateKey /\ ~sshConfig.privateKeyPath
  /\ up.branch = "fallback"
  /\ up.selected = "sftp"

(***************************************************************************)
(* Properties of uploadWithSFTP (SpecSftp).                                *)
(***************************************************************************)
\* A wildcard pattern against a whole path: "*" stands for any string, every
\* other character for itself.
RECURSIVE GlobHere(_, _, _, _)
GlobHere(pat, i, str, j) ==
  IF i > Len(pat) THEN j > Len(str)
  ELSE IF pat[i] = Star
    THEN \E k \in j..(Len(str) + 1) : GlobHere(pat, i + 1, str, k)
  ELSE IF j > Len(str) THEN FALSE
  ELSE pat[i] = str[j] /\ GlobHere(pat, i + 1, str, j + 1)

ExcludedByList(path, exclude) ==
  \E k \in 1..Len(exclude) :
    IF Includes(exclude[k], Star)
      THEN GlobHere(exclude[k], 1, path, 1)
      ELSE StartsWith(path, exclude[k])

\* C10: in a full-copy transfer no file whose path relative to the working
\* directory starts with an exclude pattern, or matches a wildcard exclude
\* pattern, is transferred, whatever the include list, single files included.
C10_ExcludedNeverTransferred ==
  \A k \in 1..Len(sf.written) :
    ~ExcludedByList(sf.written[k], uploadConfig.exclude)

Enumerated(file) ==
  \E k \in 1..Len(sf.filesToUpload) : sf.filesToUpload[k] = file

ListingDone == sf.pc # "idle"

\* The include patterns that name a directory holding the file.
IncludeDirsOf(file) ==
  { StripSlash(uploadConfig.include[k]) : k \in 1..Len(uploadConfig.include) }
  \cap { SubSeq(file, 1, n - 1) : n \in { h \in 1..Len(file) : file[h] = Slash } }

\* C11 as stated: every local file under an include pattern whose relative
\* path neither starts with an exclude pattern nor matches a wildcard exclude
\* pattern is among the files enumerated for transfer.
C11_UnmatchedAreEnumerated ==
  ListingDone =>
    \A i \in 1..Len(LocalFiles) :
      LET file == LocalFiles[i] IN
        (/\ IncludeDirsOf(file) # {} \/ Includes(uploadConfig.include, file)
         /\ ~ExcludedByList(file, uploadConfig.exclude))
        => Enumerated(file)

\* The entries the walk from dir meets on its way to the file: each enclosing
\* directory below dir, and the file itself.
EntriesOnWay(dir, file) ==
  { SubSeq(file, 1, n) : n \in { h \in (Len(dir) + 2)..Len(file) :
                                   h = Len(file) \/ file[h + 1] = Slash } }

\* One entry against one pattern: the relative path starts with the pattern,
\* the entry's name is the pattern, or, for a pattern with "*", the pattern
\* read as an unanchored regular expression matches the relative path.
EntryMatches(entry, pattern) ==
  IF Includes(pattern, Star) THEN RegexTest(pattern, entry)
  ELSE StartsWith(entry, pattern) \/ BaseName(entry) = pattern

\* C11, amended: a file named by an include entry, or lying under an include
\* directory, is enumerated when no entry on the way from the include entry
\* to the file (its enclosing directories below the include directory, and
\* the file itself) has a relative path that starts with an exclude pattern,
\* a name equal to one, or a relative path matched by a wildcard pattern.
C11_UnexcludedAreEnumerated ==
  ListingDone =>
    \A i \in 1..Len(LocalFiles) :
      LET file == LocalFiles[i] IN
        /\ (/\ Includes(uploadConfig.include, file)
            /\ \A k \in 1..Len(uploadConfig.exclude) :
                 ~EntryMatches(file, uploadConfig.exclude[k]))
           => Enumerated(file)
        /\ \A dir \in IncludeDirsOf(file) :
             (\A entry \in EntriesOnWay(dir, file) :
                \A k \in 1..Len(uploadConfig.exclude) :
                  ~EntryMatches(entry, uploadConfig.exclude[k]))
             => Enumerated(file)

\* include d/, exclude "a": d/a and d/n/a go by their name, d/ab stays.
C11_Witness ==
  /\ ListingDone
  /\ uploadConfig.include = <<DirD>>
  /\ uploadConfig.exclude = << <<"a">> >>
  /\ sf.filesToUpload = << <<"d", "/", "a", "b">> >>

SftpResolved == sf.pc \in {"done", "returned"}

\* C12 as stated: the outcome of a full copy reports as filesTransferred the
\* number of enumerated files whose remote write completed; with no per-file
\* error that is the number of files enumerated, and the outcome is a
\* success of method sftp.
C12_CountsCompletedWrites ==
  [][(~Delivered(sf) /\ Delivered(sf')) =>
       /\ sf'.ret.filesTransferred = Len(sf'.written)
       /\ (Len(sf'.filesToUpload) > 0 /\ sf'.written = sf'.filesToUpload) =>
            /\ sf'.ret.filesTransferred = Len(sf'.filesToUpload)
            /\ sf'.ret.method = "sftp" /\ sf'.ret.success]_vars

NothingResolves ==
  \A k \in 1..Len(uploadConfig.include) : ~ExistsLocal(uploadConfig.include[k])

\* C14: when no include pattern resolves to an existing local path, the
\* transfer ends, whichever method was selected, in a failed outcome that
\* carries a nothing-to-upload error; no remote session is opened and the
\* rsync transfer is not run (the "rsync --version" probe aside).
C14_NothingToUploadFails ==
  NothingResolves =>
    /\ up.pc # "rsyncRun"
    /\ sf.pc \notin {"connecting", "channel", "file"}
    /\ sf.attempted = <<>>
    /\ up.pc = "done" =>
         /\ ~RunUpload(up).success
         /\ RunUpload(up).error \in {ErrNoSources, ErrNoFiles}

\* rsync was selected and threw before it was run; runUpload reports it.
C14_Witness ==
  /\ NothingResolves
  /\ up.pc = "done"
  /\ up.selected = "rsync"
  /\ up.threw
  /\ RunUpload(up) = [success |-> FALSE, method |-> "sftp",
                      error |-> ErrNoSources]

Dispatched(method) ==
  \E k \in 1..Len(up.attempts) : up.attempts[k] = method

\* C15: once upload has dispatched to rsync the outcome it returns is that
\* of rsync: when the invocation fails the outcome is a failure of method
\* rsync and no full copy is attempted in the same transfer; no method is
\* attempted more than once in a transfer.
C15_NoFallbackAfterDispatch ==
  /\ Len(up.attempts) <= 1
  /\ Dispatched("rsync") =>
       /\ up.selected = "rsync"
       /\ sf = SfIdle
       /\ (up.pc = "done" /\ ~up.threw) => up.ret.method = "rsync"
  /\ Dispatched("sftp") =>
       /\ up.selected = "sftp"
       /\ up.command = "-"
       /\ up.pc = "done" => up.ret = sf.ret

\* rsync was run and failed: a failure of method rsync, no full copy.
C15_Witness ==
  /\ up.pc = "done"
  /\ up.attempts = <<"rsync">>
  /\ up.ret = UploadResult("rsync", 0, FALSE, ErrRsync)
  /\ sf = SfIdle

(***************************************************************************)
(* Properties of loadConfig and the "ship" command (SpecCli).              *)
(***************************************************************************)
NothingAttempted ==
  /\ sh = ShIdle
  /\ up = UpIdle /\ sf = SfIdle
  /\ ra = RaIdle /\ rr = RrIdle /\ vf = VfIdle

NoneSet(raw) ==
  /\ raw.privateKeyPath \in {"absent", "empty"}
  /\ raw.privateKey \in {"absent", "empty"}
  /\ raw.password \in {"absent", "empty"}

\* C16: a connection descriptor with none of privateKeyPath, privateKey and
\* password set is rejected by the validation with a configuration error;
\* loadConfig raises it, and no build, transfer or remote command is
\* attempted.
C16_NoCredentialIsRejected ==
  NoneSet(cli.raw) =>
    /\ ~SshRefine(cli.raw)
    /\ LoadConfig(cli.raw, cli.keyFile) =
         [ok |-> FALSE, error |-> ErrInvalidConfig, ssh |-> cli.raw]
    /\ cli.pc \in {"start", "exit"}
    /\ cli.pc = "exit" => cli.exitCode = 1 /\ cli.error = ErrInvalidConfig
    /\ NothingAttempted

\* No credential at all: the command ended with the configuration error.
C16_Witness ==
  /\ cli.raw = [privateKeyPath |-> "absent", privateKey |-> "absent",
                password |-> "absent"]
  /\ cli.pc = "exit"
  /\ cli.exitCode = 1
  /\ cli.error = ErrInvalidConfig
  /\ NothingAttempted

CredentialFields == {"privateKeyPath", "privateKey", "password"}

ClassesSet(data) == {f \in CredentialFields : Truthy(data[f])}

ClassesCarried == {f \in CredentialFields : sshConfig[f]}

\* loadConfig returned a configuration to the command.
Loaded == cli.pc = "run" \/ (cli.pc = "exit" /\ cli.error = NoError)

\* C17 as stated: every descriptor that passes the validation, and every
\* descriptor returned by loadConfig, carries exactly one of key path, inline
\* key and password.
C17_ExactlyOneCredential ==
  /\ \A data \in RawDescriptors :
       SshRefine(data) => Cardinality(ClassesSet(data)) = 1
  /\ Loaded => Cardinality(ClassesCarried) = 1

\* C17 as the code has it: every descriptor that passes the validation, and
\* every descriptor returned by loadConfig, carries at least one of key path,
\* inline key and password; a returned descriptor with a key path carries the
\* inline key read from that file as well, unless the file is empty.
C17_AtLeastOneCredential ==
  /\ \A data \in RawDescriptors :
       SshRefine(data) => Cardinality(ClassesSet(data)) >= 1
  /\ Loaded => Cardinality(ClassesCarried) >= 1
  /\ Loaded /\ sshConfig.privateKeyPath /\ cli.keyFile = "content"
       => sshConfig.privateKey

\* Only a key path was configured; the returned descriptor carries the key
\* path and the inline key read from the file.
C17_Witness ==
  /\ cli.raw = [privateKeyPath |-> "set", privateKey |-> "absent",
                password |-> "absent"]
  /\ Loaded
  /\ ClassesCarried = {"privateKeyPath", "privateKey"}

(***************************************************************************)
(* Properties of runShip (SpecShip).                                       *)
(***************************************************************************)
ExpectedSteps ==
  IF NeedsPrepare(buildConfig)
    THEN <<"build", "upload", "prepare", "restart">>
    ELSE <<"build", "upload", "restart">>

Started(name) == \E k \in 1..Len(sh.invoked) : sh.invoked[k] = name

FailedStep(name) == sh.returned[name].ran /\ ~sh.returned[name].success

\* C1: in a run that is not a dry run the steps are invoked in the order
\* build, upload, [prepare], restart, each only after the one before it
\* returned success; after the first step that returns failure no step is
\* invoked, and the result is a failure carrying that step's error; after a
\* failed build neither upload, prepare, restart nor verification is invoked.
C1_StepsInOrder ==
  ~shipOptions.dryRun =>
    /\ Len(sh.invoked) <= Len(ExpectedSteps)
    /\ \A k \in 1..Len(sh.invoked) : sh.invoked[k] = ExpectedSteps[k]
    /\ \A k \in 2..Len(sh.invoked) :
         /\ sh.returned[sh.invoked[k - 1]].ran
         /\ sh.returned[sh.invoked[k - 1]].success
    /\ \A name \in StepNames :
         FailedStep(name) =>
           /\ sh.invoked[Len(sh.invoked)] = name
           /\ sh.pc = "done"
           /\ ~sh.success
           /\ sh.error = sh.returned[name].error
    /\ up.pc # "idle" => Started("upload")
    /\ (rr.pc # "idle" \/ ra.pc # "idle" \/ vf.pc # "idle") =>
         Started("restart")
    /\ FailedStep("build") =>
         /\ sh.invoked = <<"build">>
         /\ up = UpIdle /\ sf = SfIdle
         /\ ra = RaIdle /\ rr = RrIdle /\ vf = VfIdle
    /\ (sh.pc = "done" /\ sh.success) =>
         /\ sh.invoked = ExpectedSteps
         /\ \A k \in 1..Len(sh.invoked) : sh.returned[sh.invoked[k]].success

\* The upload step fails after a successful build: nothing follows it.
C1_Witness ==
  /\ ~shipOptions.dryRun
  /\ sh.pc = "done"
  /\ sh.invoked = <<"build", "upload">>
  /\ sh.returned["build"].success
  /\ FailedStep("upload")
  /\ ~sh.success
  /\ sh.error = sh.returned["upload"].error
  /\ rr = RrIdle /\ ra = RaIdle

VerificationFailed ==
  rr.pc \in {"done", "returned"} /\ rr.reloadOk /\ ~rr.verified

\* C8: when reloadApp succeeded and verifyAppRunning then reports failure,
\* runRestart returns success, and runShip records the restart step as
\* successful and returns success.
C8_VerificationIsSoft ==
  VerificationFailed =>
    /\ rr.ret.success
    /\ (sh.pc = "done" /\ rr.pc = "returned") =>
         /\ sh.steps["restart"] = "success"
         /\ sh.success

\* The service was reloaded, never read "online", and the run succeeded.
C8_Witness ==
  /\ VerificationFailed
  /\ rr.pc = "returned"
  /\ Len(raLog) = 1 /\ raLog[1].ret.success
  /\ sh.pc = "done"
  /\ sh.steps["restart"] = "success"
  /\ sh.success

ShipReturned == sh.pc = "done" /\ ~shipOptions.dryRun

Recorded(name) == sh.steps[name] # "absent"

\* C18: when a run that is not a dry run returns, result.steps has an entry
\* for exactly the steps that were run, a prefix of build, upload, [prepare],
\* restart, each with the success flag its step returned; every entry but
\* possibly the last is a success, and result.success holds iff the restart
\* step was reached and every recorded step succeeded.
C18_StepsRecordWhatRan ==
  ShipReturned =>
    LET n == Len(sh.invoked)
    IN /\ n >= 1 /\ n <= Len(ExpectedSteps)
       /\ \A k \in 1..n : sh.invoked[k] = ExpectedSteps[k]
       /\ \A name \in StepNames : Recorded(name) <=> Started(name)
       /\ Recorded("upload") =>
            (sh.steps["upload"] = "success" <=> RunUpload(up).success)
       /\ Recorded("restart") =>
            (sh.steps["restart"] = "success" <=> rr.ret.success)
       /\ \A k \in 1..(n - 1) : sh.steps[sh.invoked[k]] = "success"
       /\ sh.success <=>
            /\ Recorded("restart")
            /\ \A name \in StepNames :
                 Recorded(name) => sh.steps[name] = "success"

\* The remote preparation fails: three entries, the last one a failure.
C18_Witness ==
  /\ ShipReturned
  /\ sh.invoked = <<"build", "upload", "prepare">>
  /\ sh.steps = [n \in StepNames |->
                   CASE n \in {"build", "upload"} -> "success"
                     [] n = "prepare" -> "failure"
                     [] OTHER -> "absent"]
  /\ ~sh.success

NoSteps == [n \in StepNames |-> "absent"]

\* C19: with dryRun set, runShip invokes none of runBuild, runUpload,
\* runPrepare and runRestart, opens no remote session, changes nothing on the
\* host, and returns success with an empty steps record, whatever the
\* configuration and the value of skipBuild.
C19_DryRunTouchesNothing ==
  /\ [](shipOptions.dryRun =>
          /\ sh.invoked = <<>>
          /\ sh.steps = NoSteps
          /\ up = UpIdle /\ sf = SfIdle
          /\ ra = RaIdle /\ rr = RrIdle /\ vf = VfIdle
          /\ calls = 0 /\ raLog = <<>>
          /\ sh.pc \in {"idle", "done"}
          /\ sh.pc = "done" => sh.success /\ sh.error = NoError)
  /\ [][shipOptions.dryRun => UNCHANGED <<procTable, ecoOnDisk>>]_vars

\* A dry run with skipBuild set has returned.
C19_Witness ==
  /\ shipOptions.dryRun
  /\ shipOptions.skipBuild
  /\ sh.pc = "done"
  /\ sh.success
  /\ sh.steps = NoSteps
  /\ up = UpIdle /\ rr = RrIdle /\ calls = 0

(***************************************************************************)
(* Properties of the descriptor resolution in reloadApp (SpecReload).      *)
(***************************************************************************)
ProbeIssued == \E k \in 1..Len(ra.sent) : ra.sent[k] = ProbeCmd

Queried == \E k \in 1..Len(ra.sent) : ra.sent[k] = JlistCmd

\* The resolution is over: the process-table query is next, or was issued.
Resolved == ra.pc \in {"jlist", "exec", "save"} \/ Queried

\* What holds of every mode but auto-detect, and of the order of commands.
ResolutionCommon ==
  /\ ProbeIssued => pm2Config.ecosystem = EcoAuto
  /\ Resolved =>
       /\ pm2Config.ecosystem = EcoDisabled =>
            ~ProbeIssued /\ ra.ecosystemFile = NoFile
       /\ pm2Config.ecosystem = EcoExplicit =>
            ~ProbeIssued /\ ra.ecosystemFile = EcoExplicit
       /\ Queried =>
            IF ProbeIssued
              THEN ra.sent[1] = ProbeCmd /\ ra.sent[2] = JlistCmd
              ELSE ra.sent[1] = JlistCmd
       /\ ra.pc \in {"exec", "save"} =>
            ra.command = ChooseCommand(ra.appExists, pm2Config.reload,
                                       ra.ecosystemFile, pm2Config.appName)

\* The probe was issued and the conventional file is used iff it was found.
ProbeDecides ==
  /\ ProbeIssued
  /\ ra.probed \in {"found", "silent"}
  /\ ra.ecosystemFile =
       (IF ra.probed = "found" THEN EcoConventional ELSE NoFile)

\* C20 as stated: the descriptor is resolved from the mode alone; disabled
\* gives none and no probe, an explicit filename is used verbatim without a
\* probe, auto-detect probes the target directory and uses the conventional
\* file iff the probe finds it; all of it before "pm2 jlist" is issued.
C20_ResolvedFromModeAlone ==
  /\ ResolutionCommon
  /\ (Resolved /\ pm2Config.ecosystem = EcoAuto) => ProbeDecides

\* C20 as the code has it: as above, but auto-detect probes only when a
\* remotePath was given; without one it issues no probe and resolves to no
\* descriptor.
C20_ResolvedFromModeAndPath ==
  /\ ResolutionCommon
  /\ (Resolved /\ pm2Config.ecosystem = EcoAuto) =>
       IF remotePath # ""
         THEN ProbeDecides
         ELSE ~ProbeIssued /\ ra.ecosystemFile = NoFile

\* Auto-detect with a remotePath: the probe found the file, and the service,
\* absent from the table, is started from it.
C20_Witness ==
  /\ pm2Config.ecosystem = EcoAuto
  /\ remotePath = WslPath
  /\ ra.pc = "exec"
  /\ ra.sent = <<ProbeCmd, JlistCmd>>
  /\ ra.probed = "found"
  /\ ra.ecosystemFile = EcoConventional
  /\ ra.command = StartCommand(EcoConventional, AppName)

(***************************************************************************)
(* Properties of the start of an absent service (SpecReload).              *)
(***************************************************************************)
\* The call in progress got an answer to "pm2 jlist" and went past the
\* choice of its command.
ActionIssued == ra.jlist # NoAnswer /\ ra.pc \in {"save", "done", "returned"}

AbsentWithPath == ~InTable(ra.tableAtCall, AppName) /\ remotePath # ""

\* C21: with the service absent from the process table and a remotePath
\* given, reloadApp issues exactly one start command and no reload or
\* restart: "start <descriptor> --only <name>" when a descriptor was
\* resolved, otherwise a start of the default entry point under the name.
C21_AbsentIsStarted ==
  (ActionIssued /\ AbsentWithPath) =>
    /\ Len(ActionCmds(ra.sent)) = 1
    /\ LET c == ActionCmds(ra.sent)[1]
       IN /\ c.verb = "start"
          /\ c.name = AppName
          /\ IF ra.ecosystemFile # NoFile
               THEN c.target = ra.ecosystemFile /\ c.flag = "--only"
               ELSE c.target = "server.js" /\ c.flag = "--name"

\* An explicit descriptor, the service absent: started from the descriptor.
C21_Witness ==
  /\ ActionIssued /\ AbsentWithPath
  /\ pm2Config.ecosystem = EcoExplicit
  /\ ra.pc = "done"
  /\ ra.ret.success
  /\ ActionCmds(ra.sent) =
       << [verb |-> "start", target |-> EcoExplicit, flag |-> "--only",
           name |-> AppName] >>
  /\ InTable(procTable, AppName)

(***************************************************************************)
(* Properties of the command text (SpecReload, SpecText).                  *)
(***************************************************************************)
\* The marks of cmd.exe syntax in a command, and those of a Unix shell.
WindowsConditional(text) == Includes(text, "exist")

WindowsCd(text) == Includes(text, "/d")

WindowsEnv(text) == Includes(text, "set")

Assigns(text) == Includes(text, "=")

SentTexts ==
  {Render(ra.sent[k], remotePath, pm2Config) : k \in 1..Len(ra.sent)}

\* C22 as stated: every command reloadApp sends is in the syntax of the OS
\* family inferred from remotePath, cmd.exe syntax (if exist, set VAR=.. &&,
\* backslashes, cd /d) iff remotePath starts with /mnt/ and Unix syntax
\* otherwise, in the probe, the environment prefix, the separators and the
\* directory change alike.
C22_SyntaxFollowsRemotePath ==
  \A text \in SentTexts :
    IF IsWindows(remotePath)
      THEN /\ ~Includes(text, "/")
           /\ Assigns(text) => WindowsEnv(text)
      ELSE /\ ~WindowsConditional(text)
           /\ ~WindowsCd(text)
           /\ ~Includes(text, BS)
           /\ ~WindowsEnv(text)

ConfiguredValue == pm2Config.env[1].v

ReloadWords ==
  <<"pm2", IF pm2Config.reload THEN "reload" ELSE "restart", AppName,
    "--update-env">>

\* C23 as stated: whatever characters a configured value holds, the host's
\* shell reads the text buildEnvPrefix produced for it as one literal word
\* equal to the value; the value is not expanded, it does not end its
\* assignment early, and no further command comes of it.
C23_ValueReadLiterally ==
  (tx.pc = "read" /\ tx.command.verb # "start" /\ pm2Config.env # NoEnv) =>
    /\ tx.read.assigned = ConfiguredValue
    /\ ~tx.read.expanded
    /\ ~tx.read.extra
    /\ tx.read.command = ReloadWords

(***************************************************************************)
(* Properties of the remote command executor (SpecExec).                   *)
(***************************************************************************)
\* C24: execRemoteCommand returns the output and the exit code of every
\* command that was dispatched, whatever the exit code; it raises only when
\* the session cannot be established or the command cannot be dispatched,
\* never because of a nonzero exit code.
C24_ExecutorReturnsEveryExit ==
  ex.pc = "done" =>
    /\ ex.threw <=> ~ex.dispatched
    /\ ex.threw =>
         /\ ex.error \in {ErrConnect, ErrExec}
         /\ ex.ret = NoExecResult
    /\ ex.dispatched =>
         /\ ex.error = NoError
         /\ ex.ret.code = (IF ex.answer.exitCode = "nonzero" THEN 1 ELSE 0)
         /\ ex.ret.marker = ex.answer.marker

\* A command that exited nonzero: returned, not raised.
C24_Witness ==
  /\ ex.pc = "done"
  /\ ex.dispatched
  /\ ex.answer.exitCode = "nonzero"
  /\ ~ex.threw
  /\ ex.ret.code = 1

ExecutorSessions == {ex.sessions[k] : k \in 1..Len(ex.sessions)}

Carries(ssh, given) ==
  /\ given.privateKey => ssh.privateKey
  /\ given.password => ssh.password

\* C26 as stated: for every validated descriptor (key path, inline key or
\* password) every session opened by the full copy and by the remote command
\* executor is given a credential the descriptor carries.
C26_EverySessionHasCredential ==
  /\ \A s \in ExecutorSessions :
       HasCredential(s.given) /\ Carries(sshConfig, s.given)
  /\ ra.conn # "null" =>
       /\ HasCredential(ConnectConfig(sshConfig))
       /\ Carries(sshConfig, ConnectConfig(sshConfig))
  /\ sf.pc \in {"channel", "file"} =>
       /\ HasCredential(SftpConnectConfig(sshConfig))
       /\ Carries(sshConfig, SftpConnectConfig(sshConfig))

(***************************************************************************)
(* Properties of loadConfig over a file and an environment (SpecLoad).     *)
(***************************************************************************)
LoadReturned == lc.pc = "done" /\ lc.result.ok

NoKeyVariable ==
  /\ ~IsSet(lc.env.SSH_KEY)
  /\ ~IsSet(lc.env.SSH_KEY_PATH)
  /\ ~IsSet(lc.env.SSH_PRIVATE_KEY)

NoFileCredential ==
  \A f \in {"privateKey", "privateKeyPath", "password"} :
    lc.file[f] = Undefined

PasswordFromEnvOnly ==
  /\ IsSet(lc.env.SSH_HOST)
  /\ IsSet(lc.env.SSH_USER)
  /\ IsSet(lc.env.SSH_PASSWORD)
  /\ NoKeyVariable
  /\ NoFileCredential
  /\ \A f \in {"remotePath", "appName"} :
       DeepMerge(lc.file, GetEnvConfig(lc.env))[f] # Undefined

\* C27: with SSH_HOST, SSH_USER and SSH_PASSWORD set, no key variable and no
\* credential in the config file, loadConfig returns a configuration whose
\* ssh.password is the value of SSH_PASSWORD.
C27_PasswordFromEnvironment ==
  (lc.pc = "done" /\ PasswordFromEnvOnly)
    => (lc.result.ok /\ lc.result.config.password = "env")

\* The variable behind each field that has one.
VariableOf ==
  [host |-> "SSH_HOST", user |-> "SSH_USER", port |-> "SSH_PORT",
   command |-> "BUILD_COMMAND", standalone |-> "STANDALONE",
   skipBuild |-> "SKIP_BUILD", remotePath |-> "REMOTE_PATH",
   appName |-> "PM2_APP_NAME", ecosystem |-> "PM2_ECOSYSTEM"]

\* C28: for every field that has an environment variable, if the variable is
\* unset the configuration loadConfig returns keeps the value the config file
\* gives the field.
C28_UnsetKeepsFileValue ==
  LoadReturned =>
    \A f \in DOMAIN VariableOf :
      (lc.env[VariableOf[f]] = "unset" /\ lc.file[f] # Undefined)
        => lc.result.config[f] = lc.file[f]

(***************************************************************************)
(* The order of the commands of one reloadApp call (SpecReload).           *)
(***************************************************************************)
CommandKind(c) ==
  IF c = ProbeCmd THEN "probe"
  ELSE IF c = JlistCmd THEN "query"
  ELSE IF c = SaveCmd THEN "persist"
  ELSE IF c.verb \in ActionVerbs THEN "action"
  ELSE "other"

Kinds(sent) == [k \in 1..Len(sent) |-> CommandKind(sent[k])]

IsPrefix(s, t) == Len(s) <= Len(t) /\ \A k \in 1..Len(s) : s[k] = t[k]

CallOver == ra.pc \in {"done", "returned"}

\* C29: the commands one reloadApp call sends form a prefix of: optional
\* descriptor probe, process-table query, one action command, persist.  The
\* persist command is sent only after the action exited 0, and a call that
\* is over has sent it exactly when the action exited 0.
C29_CommandsInOrder ==
  /\ \/ IsPrefix(Kinds(ra.sent), <<"probe", "query", "action", "persist">>)
     \/ IsPrefix(Kinds(ra.sent), <<"query", "action", "persist">>)
  /\ Persisted(ra) => ra.actionCode = 0
  /\ CallOver => (Persisted(ra) <=> ra.actionCode = 0)

C29_Witness ==
  /\ CallOver
  /\ Kinds(ra.sent) = <<"probe", "query", "action", "persist">>
  /\ ra.actionCode = 0

(***************************************************************************)
(* The order of the file attempts of a full copy (SpecSftp).               *)
(***************************************************************************)
InFlight == sf.pending \cup sf.open

\* C30: the enumerated files are attempted one after another in enumeration
\* order: a file is taken only after the attempt before it ended, at most
\* one write stream is open at any time, and a full copy that reports
\* success has attempted every enumerated file exactly once, per-file
\* errors or not.
C30_OneFileAtATime ==
  /\ IsPrefix(sf.started, sf.filesToUpload)
  /\ Cardinality(sf.open) <= 1
  /\ Cardinality(InFlight) <= 1
  /\ (SftpResolved /\ sf.ret.success) =>
       /\ sf.attempted = sf.filesToUpload
       /\ InFlight = {}

(***************************************************************************)
(* The directory requests of a file of a full copy (SpecSftp).             *)
(***************************************************************************)
AllDirPaths(file) ==
  [k \in 1..Len(RemoteDirParts(file)) |-> DirPath(file, k)]

\* C31: for each file in flight the directory requests made so far are the
\* prefixes of its remote parent path from the root component downward, at
\* most one of them has not called back, and a file whose write stream is
\* open had a request for every prefix, all called back, errors included.
C31_DirectoriesBeforeStream ==
  \A d \in sf.dirs :
    /\ IsPrefix(d.made, AllDirPaths(d.file))
    /\ Len(d.made) >= 1
    /\ Len(d.made) - d.back \in {0, 1}
    /\ d.file \in sf.pending => Len(d.made) - d.back = 1
    /\ d.file \in sf.open =>
         /\ d.made = AllDirPaths(d.file)
         /\ d.back = Len(d.made)

\* The stream of d/n/a is open after three requests, one of which failed.
C31_Witness ==
  \E d \in sf.dirs :
    /\ d.file = <<"d", "/", "n", "/", "a">>
    /\ d.file \in sf.open
    /\ Len(d.made) = 3
    /\ d.failed

(***************************************************************************)
(* Properties of the delta-sync outcome (SpecStats).                       *)
(***************************************************************************)
StatsMissing ==
  \A k \in 1..Len(rs.stdout) :
    rs.stdout[k] \notin { NumberOfFiles(t) : t \in DOMAIN CountValue }

PathLines == Len(SelectSeq(rs.stdout, LAMBDA line : line.kind = "file"))

\* C32: the outcome of a delta-sync is a success exactly when rsync exited
\* 0, and when its output has no parseable file statistic filesTransferred
\* is the number of output lines that are neither blank nor statistics or
\* other information.
C32_CountsPathLines ==
  rs.pc = "done" =>
    /\ rs.ret.success <=> rs.exitedZero
    /\ (rs.exitedZero /\ StatsMissing) => rs.ret.filesTransferred = PathLines

(***************************************************************************)
(* The merge of the assets into the standalone output (SpecShip).          *)
(***************************************************************************)
RestartReached ==
  \E k \in 1..Len(sh.invoked) : sh.invoked[k] = "restart"

\* C33: in a run with build.standalone that reaches the restart step the
\* static and public assets were merged into the standalone output exactly
\* once before the restart: locally by runBuild when prepareLocally is set,
\* remotely by runPrepare when it is not, whatever skipBuild is.
C33_AssetsMergedOnce ==
  (buildConfig.standalone /\ RestartReached) =>
    sh.merged = IF buildConfig.prepareLocally THEN <<"local">>
                ELSE <<"remote">>

(***************************************************************************)
(* The port in the injected environment (SpecText).                        *)
(***************************************************************************)
PortValues(env) ==
  LET own == SelectSeq(env, LAMBDA e : e.k = "PORT")
  IN [k \in 1..Len(own) |-> own[k].v]

\* C34: the environment injected into a start without a descriptor, with a
\* port configured, sets PORT once and to the configured port, whatever the
\* configured mapping holds; a reload, a restart and a start from a
\* descriptor get the configured mapping and nothing else.
C34_PortInjectedOnce ==
  tx.pc # "idle" =>
    IF IsStandaloneStart(tx.command) /\ pm2Config.port # NoPort
      THEN PortValues(tx.env) = <<pm2Config.port>>
      ELSE tx.env = pm2Config.env

(***************************************************************************)
(* Properties of two calls at once (SpecRace).                             *)
(***************************************************************************)
BothReturned == \A i \in Callers : rc[i].pc = "done"

\* C35: when two reloadApp calls for the same service run at once against a
\* supervisor that runs each command atomically, both return success and
\* the process table ends with exactly one entry of the name, however their
\* existence checks and action commands interleave.
C35_BothSucceed ==
  BothReturned =>
    /\ \A i \in Callers : rc[i].ret.success
    /\ Count(procTable, pm2Config.appName) = 1

(***************************************************************************)
(* The method runUpload reports (SpecUpload).                              *)
(***************************************************************************)
\* C36: the method runUpload reports is the method upload selected and
\* attempted, on success and on every failure, a selected method that
\* throws instead of returning an outcome included.
C36_ReportsSelectedMethod ==
  (up.pc \in {"done", "returned"} /\ up.selected # "none") =>
    RunUpload(up).method = up.selected

(***************************************************************************)
(* The session of the full copy and the outcome it delivers (SpecSftp).    *)
(***************************************************************************)
\* C37: a session that reached ready has been ended by the time the
\* operation delivers its result, on every exit path; here for the session
\* of uploadWithSFTP.
C37_SessionEndedAtResult ==
  (Delivered(sf) /\ sf.ready) => sf.ended

\* C38: once the session of the full copy is ready, an outcome is eventually
\* delivered and the session ended, given that every request calls back and
\* every file attempt ends; and a delivered outcome is never replaced.
C38_DeliversOnceAndEnds ==
  /\ sf.ready ~> (Delivered(sf) /\ sf.ended)
  /\ [][Delivered(sf) => (Delivered(sf') /\ sf'.ret = sf.ret)]_vars

(***************************************************************************)
(* The OS family of the target host, as runPrepare and reloadApp decide it *)
(* within one run (SpecExec).                                              *)
(***************************************************************************)
\* reloadApp was called after a successful runPrepare.
RestartFollowed == pr.pc = "done" /\ pr.ret.success /\ calls > 0

\* C39: within one run, runPrepare and reloadApp classify the target host
\* as the same OS family, for every remotePath and every kind of host.
C39_SameOsFamily ==
  RestartFollowed => (pr.isWindows <=> IsWindows(remotePath))

=============================================================================
